---- MODULE Spec2Model ----
(***************************************************************************)
(* A model of the GBR Game Boy emulator core (src/src/core): the bus and   *)
(* its leaves (cartridge, work RAM, high RAM, pixel pipeline, audio        *)
(* register file, interrupt controller, pad, timer) and the CPU step.      *)
(*                                                                         *)
(* Each component of `struct Bus` is one variable holding a record with    *)
(* the fields of the Rust struct.  Handlers are pure operators from bus    *)
(* records to bus records so that a handler that calls other handlers      *)
(* (Cpu::tick -> Bus::transfer -> Bus::write8 ...) is one action.          *)
(*                                                                         *)
(* Byte arrays (rom, ram, vram, ...) are functions from the offsets that   *)
(* hold a non-zero byte to that byte; every other offset holds 0, which is *)
(* what the constructors put there.                                        *)
(*                                                                         *)
(* A Rust panic is modelled by the flag `fault`: the handler stops where   *)
(* the panic happens and the process takes no further step.                *)
(***************************************************************************)
EXTENDS Integers, Sequences, FiniteSets, TLC

VARIABLES
    cartridge,      \* Bus.cartridge : Cartridge (NoMbc | Mbc1)
    ram,            \* Bus.ram       : Ram (8 KiB work RAM)
    hram,           \* Bus.hram      : HRam (128 bytes)
    ppu,            \* Bus.ppu       : Ppu
    apu,            \* Bus.apu       : Apu register file
    interrupt,      \* Bus.interrupt : Interrupt (ime, irqf, irqe)
    pad,            \* Bus.pad       : Pad (register, state)
    timer,          \* Bus.timer     : Timer (div, tima, tma, tac, count)
    cpu,            \* Cpu registers a,b,c,d,e,h,l,f,sp,pc
    fault,          \* TRUE once a handler has panicked
    overflowChecks, \* build option: TRUE = debug build (arithmetic overflow panics)
    lastOp,         \* the handler that produced this state, with its inputs and results
    shadow,         \* history: canonical address -> byte most recently written by BusWrite
    nops            \* number of host operations performed so far (bounds the model)

busVars == <<cartridge, ram, hram, ppu, apu, interrupt, pad, timer, fault>>
vars == <<cartridge, ram, hram, ppu, apu, interrupt, pad, timer, cpu, fault,
          overflowChecks, lastOp, shadow, nops>>

----------------------------------------------------------------------------
(* Bytes, bits and sparse byte arrays *)

Byte == 0..255

\* result of a read that panicked
FAULT == -1

Pow2(k) == 2^k

Bit(x, k) == (x \div Pow2(k)) % 2

HasBit(x, k) == Bit(x, k) = 1

\* bitflags insert / remove of a single-bit flag
SetBit(x, k) == IF HasBit(x, k) THEN x ELSE x + Pow2(k)

ClearBit(x, k) == IF HasBit(x, k) THEN x - Pow2(k) ELSE x

RECURSIVE AndBits(_, _, _)
AndBits(x, y, k) ==
    IF k = 0 THEN 0
    ELSE (x % 2) * (y % 2) + 2 * AndBits(x \div 2, y \div 2, k - 1)

\* x & y on 16-bit operands
And(x, y) == AndBits(x, y, 16)

RECURSIVE OrBits(_, _, _)
OrBits(x, y, k) ==
    IF k = 0 THEN 0
    ELSE (IF x % 2 = 1 \/ y % 2 = 1 THEN 1 ELSE 0) + 2 * OrBits(x \div 2, y \div 2, k - 1)

\* x | y on 16-bit operands
Or(x, y) == OrBits(x, y, 16)

RECURSIVE XorBits(_, _, _)
XorBits(x, y, k) ==
    IF k = 0 THEN 0
    ELSE ((x + y) % 2) + 2 * XorBits(x \div 2, y \div 2, k - 1)

\* x ^ y on 16-bit operands
Xor(x, y) == XorBits(x, y, 16)

\* u8 / u16 wrapping arithmetic
Wrap8(x) == x % 256

Wrap16(x) == x % 65536

\* always true; used to fix the order in which the steps of a loop are evaluated
Evaluated(v) == v = v

\* the empty (all zero) array
Zeroes == [o \in {} |-> 0]

\* array[o]
Get(m, o) == IF o \in DOMAIN m THEN m[o] ELSE 0

\* array[o] = v
Put(m, o, v) ==
    IF v = 0
    THEN (IF o \in DOMAIN m THEN Zeroes @@ [x \in (DOMAIN m) \ {o} |-> m[x]] ELSE m)
    ELSE (o :> v) @@ m

----------------------------------------------------------------------------
(* Ram, HRam *)

RAM_SIZE == 8192

HRAM_SIZE == 128

\* Ram::read8 / HRam::read8: self.ram[addr], a panic when addr is out of range
RamRead8(r, size, addr) == IF addr < size THEN Get(r, addr) ELSE FAULT

\* Ram::write8 / HRam::write8: self.ram[addr] = data
RamWrite8(r, addr, data) == Put(r, addr, data)

----------------------------------------------------------------------------
(* Cartridge *)

ROM_BANK_SIZE == 16384

RAM_BANK_SIZE == 8192

_ROM_SIZE == 32768

\* rom index of a read in 0x4000..0x7FFF: addr + 0x4000*(rombank as usize - 1).
\* With rombank = 0 the subtraction overflows: a panic in a debug build; in a
\* release build it wraps, and the wrapped product plus addr is addr - 0x4000.
Mbc1RomIndex(c, addr, checks) ==
    IF c.rombank = 0
    THEN (IF checks THEN FAULT ELSE addr - ROM_BANK_SIZE)
    ELSE addr + ROM_BANK_SIZE * (c.rombank - 1)

\* v[i] on a Vec of length len
VecGet(v, len, i) == IF i >= 0 /\ i < len THEN Get(v, i) ELSE FAULT

CartridgeRead8(c, addr, checks) ==
    IF c.kind = "NoMbc"
    THEN IF addr <= 32767 THEN VecGet(c.rom, c.romlen, addr) ELSE FAULT
    ELSE IF addr <= 16383 THEN VecGet(c.rom, c.romlen, addr)
         ELSE IF addr <= 32767
              THEN LET i == Mbc1RomIndex(c, addr, checks)
                   IN  IF i = FAULT THEN FAULT ELSE VecGet(c.rom, c.romlen, i)
         ELSE IF addr >= 40960 /\ addr <= 49151
              THEN VecGet(c.ram, c.ramlen, addr - 40960 + RAM_BANK_SIZE * c.rambank)
         ELSE FAULT

\* a RAM-enable latch that compares the whole byte
Mbc1RamEnable_WholeByte(data) == data = 10

\* Cartridge::write8, Mbc1, 0x0000..=0x1FFF: the value of ram_enabled
Mbc1RamEnable(data) == And(data, 15) = 10

\* Cartridge::write8; the result is the new cartridge and whether it panicked
CartridgeWrite8(c, addr, data) ==
    IF c.kind = "NoMbc"
    THEN IF addr <= 32767 /\ addr < c.romlen
         THEN [cart |-> [c EXCEPT !.rom = Put(c.rom, addr, data)], fault |-> FALSE]
         ELSE [cart |-> c, fault |-> TRUE]
    ELSE IF addr <= 8191
         THEN [cart |-> [c EXCEPT !.ram_enabled = Mbc1RamEnable(data)], fault |-> FALSE]
         ELSE IF addr <= 16383
         THEN [cart |-> [c EXCEPT !.rombank = And(data, 31)], fault |-> FALSE]
         ELSE IF addr <= 24575
         THEN IF c.mode = "RamBank"
              THEN [cart |-> [c EXCEPT !.rambank = And(data, 3)], fault |-> FALSE]
              ELSE [cart |-> [c EXCEPT !.rombank = Or(c.rombank, Wrap8(And(data, 3) * 32))],
                    fault |-> FALSE]
         ELSE IF addr <= 32767
         THEN [cart |-> [c EXCEPT !.mode = IF And(data, 1) = 0 THEN "RomBank" ELSE "RamBank"],
               fault |-> FALSE]
         ELSE IF addr >= 40960 /\ addr <= 49151
         THEN IF c.ram_enabled
              THEN LET i == IF c.mode = "RamBank"
                            THEN addr - 40960 + RAM_BANK_SIZE * c.rambank
                            ELSE addr - 40960
                   IN  IF i < c.ramlen
                       THEN [cart |-> [c EXCEPT !.ram = Put(c.ram, i, data)], fault |-> FALSE]
                       ELSE [cart |-> c, fault |-> TRUE]
              ELSE [cart |-> c, fault |-> FALSE]
         ELSE [cart |-> c, fault |-> TRUE]

\* Cartridge::_no_cartridge
NoCartridge ==
    [kind |-> "NoMbc", rom |-> Zeroes, romlen |-> _ROM_SIZE,
     rombank |-> 1, ram |-> Zeroes, ramlen |-> 0, rambank |-> 0,
     ram_enabled |-> FALSE, mode |-> "RomBank"]

\* Cartridge::from_path for a file `rom` of romlen bytes with type byte 0x00
\* (NoMbc) or 0x01 (Mbc1) and a RAM of ramlen bytes
CartridgeFromPath(kind, rom, romlen, ramlen) ==
    IF kind = "NoMbc"
    THEN [NoCartridge EXCEPT !.rom = rom, !.romlen = romlen]
    ELSE [kind |-> "Mbc1", rom |-> rom, romlen |-> romlen,
          rombank |-> 1, ram |-> Zeroes, ramlen |-> ramlen, rambank |-> 0,
          ram_enabled |-> FALSE, mode |-> "RomBank"]

----------------------------------------------------------------------------
(* Interrupt controller *)

VBLANK_ISR_ADDR == 64

LCDC_STAT_ISR_ADDR == 72

TIMER_ISR_ADDR == 80

SERIAL_ISR_ADDR == 88

JOYPAD_ISR_ADDR == 96

\* the value None of an Option<usize> / of an absent opcode
None == -2

\* the value None of an Option<InterruptKind>
NoKind == "None"

InterruptKind == {"Vblank", "LcdcStatus", "Timer", "Serial", "Joypad"}

\* bit of If / Ie that belongs to an InterruptKind
KindBit(kind) ==
    CASE kind = "Vblank"     -> 0
      [] kind = "LcdcStatus" -> 1
      [] kind = "Timer"      -> 2
      [] kind = "Serial"     -> 3
      [] kind = "Joypad"     -> 4

InterruptNew == [ime |-> FALSE, irqf |-> 0, irqe |-> 0]

\* a controller that looks at IF only and ignores the enable mask
interrupt_kind_NoMask(i) ==
    IF ~i.ime THEN NoKind
    ELSE IF HasBit(i.irqf, 0) THEN "Vblank"
    ELSE IF HasBit(i.irqf, 1) THEN "LcdcStatus"
    ELSE IF HasBit(i.irqf, 2) THEN "Timer"
    ELSE IF HasBit(i.irqf, 3) THEN "Serial"
    ELSE IF HasBit(i.irqf, 4) THEN "Joypad"
    ELSE NoKind

\* Interrupt::interrupt_kind
interrupt_kind(i) ==
    IF ~i.ime THEN NoKind
    ELSE IF HasBit(i.irqe, 0) /\ HasBit(i.irqf, 0) THEN "Vblank"
    ELSE IF HasBit(i.irqe, 1) /\ HasBit(i.irqf, 1) THEN "LcdcStatus"
    ELSE IF HasBit(i.irqe, 2) /\ HasBit(i.irqf, 2) THEN "Timer"
    ELSE IF HasBit(i.irqe, 3) /\ HasBit(i.irqf, 3) THEN "Serial"
    ELSE IF HasBit(i.irqe, 4) /\ HasBit(i.irqf, 4) THEN "Joypad"
    ELSE NoKind

\* Interrupt::isr_addr
isr_addr(i) ==
    LET kind == interrupt_kind(i)
    IN  CASE kind = NoKind       -> None
          [] kind = "Vblank"     -> VBLANK_ISR_ADDR
          [] kind = "LcdcStatus" -> LCDC_STAT_ISR_ADDR
          [] kind = "Timer"      -> TIMER_ISR_ADDR
          [] kind = "Serial"     -> SERIAL_ISR_ADDR
          [] kind = "Joypad"     -> JOYPAD_ISR_ADDR

\* Interrupt::set_irq
set_irq(i, kind) == [i EXCEPT !.irqf = SetBit(i.irqf, KindBit(kind))]

\* Interrupt::remove_irq
remove_irq(i, kind) == [i EXCEPT !.irqf = ClearBit(i.irqf, KindBit(kind))]

\* Interrupt::enable / Interrupt::disable
enable(i) == [i EXCEPT !.ime = TRUE]

disable(i) == [i EXCEPT !.ime = FALSE]

\* Interrupt::has_irq
has_irq(i) == i.irqf # 0

\* If::from_bits_truncate / Ie::from_bits_truncate: all eight bits are declared
IF_BITS == 255

\* impl Io for Interrupt
InterruptRead8(i, addr) ==
    IF addr = 65295 THEN i.irqf
    ELSE IF addr = 65535 THEN i.irqe
    ELSE FAULT

InterruptWrite8(i, addr, data) ==
    IF addr = 65295 THEN [i EXCEPT !.irqf = And(data, IF_BITS)]
    ELSE [i EXCEPT !.irqe = And(data, IF_BITS)]

----------------------------------------------------------------------------
(* Timer *)

TAC00_DIV == 1024

TAC01_DIV == 16

TAC10_DIV == 64

TAC11_DIV == 256

DIV == 256

\* Tac::from_bits_truncate: TIMER_EN | CLK_SEL1 | CLK_SEL0
TAC_BITS == 7

TimerNew == [div |-> 0, tima |-> 0, tma |-> 0, tac |-> 0, count |-> 0]

\* the divider the match in Timer::tick picks for tac.bits() & 0b11
TimerDivider(sel) ==
    CASE sel = 0 -> TAC00_DIV
      [] sel = 2 -> TAC01_DIV
      [] sel = 1 -> TAC10_DIV
      [] sel = 3 -> TAC11_DIV

\* a timer that wraps TIMA to 0 without reloading it from TMA
TimerTick_NoReload(t) ==
    LET count == Wrap16(t.count + 1)
        fires == HasBit(t.tac, 2) /\ count % TimerDivider(And(t.tac, 3)) = 0
        inc   == Wrap8(t.tima + 1)
        overflow == fires /\ inc = 0
        tima  == IF fires THEN inc ELSE t.tima
        div   == IF count % DIV = 0 THEN Wrap8(t.div + 1) ELSE t.div
    IN  [timer |-> [t EXCEPT !.count = count, !.tima = tima, !.div = div],
         overflow |-> overflow]

\* Timer::tick; the result is the new timer and the overflow flag
TimerTick(t) ==
    LET count == Wrap16(t.count + 1)
        fires == HasBit(t.tac, 2) /\ count % TimerDivider(And(t.tac, 3)) = 0
        inc   == Wrap8(t.tima + 1)
        overflow == fires /\ inc = 0
        tima  == IF fires THEN (IF inc = 0 THEN t.tma ELSE inc) ELSE t.tima
        div   == IF count % DIV = 0 THEN Wrap8(t.div + 1) ELSE t.div
    IN  [timer |-> [t EXCEPT !.count = count, !.tima = tima, !.div = div],
         overflow |-> overflow]

\* impl Io for Timer
TimerRead8(t, addr) ==
    CASE addr = 65284 -> t.div
      [] addr = 65285 -> t.tima
      [] addr = 65286 -> t.tma
      [] addr = 65287 -> t.tac
      [] OTHER -> FAULT

TimerWrite8(t, addr, data) ==
    CASE addr = 65284 -> [t EXCEPT !.div = 0]
      [] addr = 65285 -> [t EXCEPT !.tima = data]
      [] addr = 65286 -> [t EXCEPT !.tma = data]
      [] addr = 65287 -> [t EXCEPT !.tac = And(data, TAC_BITS)]

----------------------------------------------------------------------------
(* Pad *)

\* P1::from_bits_truncate: P15..P10
P1_BITS == 63

Keys == {"Right", "Left", "Up", "Down", "A", "B", "Select", "Start"}

\* bit of KeyState that belongs to a Key
KeyBit(key) ==
    CASE key = "Right"  -> 0
      [] key = "Left"   -> 1
      [] key = "Up"     -> 2
      [] key = "Down"   -> 3
      [] key = "A"      -> 4
      [] key = "B"      -> 5
      [] key = "Select" -> 6
      [] key = "Start"  -> 7

PadNew == [register |-> 15, state |-> 255]

\* a read that takes the low nibble of the key state for both rows
PadRead8_LowNibble(p) ==
    IF ~HasBit(p.register, 5) \/ ~HasBit(p.register, 4)
    THEN Or(And(p.register, 240), And(p.state, 15))
    ELSE And(p.register, 15)

\* Pad::read8
PadRead8(p) ==
    IF ~HasBit(p.register, 5)
    THEN Or(And(p.register, 240), And(p.state \div 16, 15))
    ELSE IF ~HasBit(p.register, 4)
    THEN Or(And(p.register, 240), And(p.state, 15))
    ELSE And(p.register, 15)

\* Pad::write8
PadWrite8(p, data) == [p EXCEPT !.register = And(data, P1_BITS)]

\* Pad::push_key / Pad::release_key
PadPushKey(p, key) == [p EXCEPT !.state = ClearBit(p.state, KeyBit(key))]

PadReleaseKey(p, key) == [p EXCEPT !.state = SetBit(p.state, KeyBit(key))]

----------------------------------------------------------------------------
(* Pixel pipeline *)

SCREEN_WIDTH == 160

SCREEN_HEIGHT == 144

LCD_BLANK_HEIGHT == 10

OAM_SPRITES == 40

CLOCKS_PER_LINE == 456

TILEMAP0_OFFSET == 38912

TILEMAP1_OFFSET == 39936

TILEDATA0_OFFSET == 34816

TILEDATA1_OFFSET == 32768

\* Stat::from_bits_truncate: bits 0..6 are declared, bit 7 is not
STAT_BITS == 127

\* Lcdc::from_bits_truncate and OamFlags::from_bits_truncate: all eight bits
LCDC_BITS == 255

OAMFLAGS_BITS == 255

\* impl From<u8> for Palette (Color::from is the identity on 0..3)
PaletteFrom(item) ==
    [dot_11 |-> (item \div 64) % 4, dot_10 |-> (item \div 16) % 4,
     dot_01 |-> (item \div 4) % 4,  dot_00 |-> item % 4]

\* Palette::to_u8
PaletteToU8(pal) == pal.dot_11 * 64 + pal.dot_10 * 16 + pal.dot_01 * 4 + pal.dot_00

\* Ppu::new
PpuNew ==
    [clock |-> 0, pixels |-> Zeroes, lcdc |-> 145, stat |-> 0, scy |-> 0, scx |-> 0,
     ly |-> 0, lyc |-> 0, dma |-> 0,
     bgp |-> PaletteFrom(252), obp0 |-> PaletteFrom(255), obp1 |-> PaletteFrom(255),
     wy |-> 0, wx |-> 0, vram |-> Zeroes, oam |-> Zeroes, oam_dma_started |-> FALSE]

\* self.oam[(addr&0xFF)/4] field addr%4, as an offset into the 40 x 4 table;
\* an entry index of 40 or more is out of range
OamIndex(addr) == ((addr % 256) \div 4) * 4 + (addr % 4)

\* impl Io for Oam, reached through Ppu::read8 / Ppu::write8
OamRead8(o, addr) ==
    IF (addr % 256) \div 4 < OAM_SPRITES THEN Get(o, OamIndex(addr)) ELSE FAULT

OamWrite8(o, addr, data) ==
    Put(o, OamIndex(addr), IF addr % 4 = 3 THEN And(data, OAMFLAGS_BITS) ELSE data)

\* impl Io for Ppu: read8
PpuRead8(p, addr) ==
    IF addr >= 32768 /\ addr <= 40959 THEN RamRead8(p.vram, RAM_SIZE, And(addr, 8191))
    ELSE IF addr >= 65024 /\ addr <= 65183 THEN OamRead8(p.oam, addr)
    ELSE CASE addr = 65344 -> p.lcdc
           [] addr = 65345 -> p.stat
           [] addr = 65346 -> p.scy
           [] addr = 65347 -> p.scx
           [] addr = 65348 -> p.ly
           [] addr = 65349 -> p.lyc
           [] addr = 65350 -> p.dma
           [] addr = 65351 -> PaletteToU8(p.bgp)
           [] addr = 65352 -> PaletteToU8(p.obp0)
           [] addr = 65353 -> PaletteToU8(p.obp1)
           [] addr = 65354 -> p.wy
           [] addr = 65355 -> p.wx
           [] OTHER -> FAULT

\* the arm of Ppu::write8 for 0xFF46
PpuWriteDma(p, data) == [p EXCEPT !.dma = data, !.oam_dma_started = TRUE]

\* impl Io for Ppu: write8 (every address the bus routes here has an arm)
PpuWrite8(p, addr, data) ==
    IF addr >= 32768 /\ addr <= 40959
    THEN [p EXCEPT !.vram = RamWrite8(p.vram, And(addr, 8191), data)]
    ELSE IF addr >= 65024 /\ addr <= 65183
    THEN [p EXCEPT !.oam = OamWrite8(p.oam, addr, data)]
    ELSE CASE addr = 65344 -> [p EXCEPT !.lcdc = And(data, LCDC_BITS)]
           [] addr = 65345 -> [p EXCEPT !.stat = And(data, STAT_BITS)]
           [] addr = 65346 -> [p EXCEPT !.scy = data]
           [] addr = 65347 -> [p EXCEPT !.scx = data]
           [] addr = 65348 -> [p EXCEPT !.ly = data]
           [] addr = 65349 -> [p EXCEPT !.lyc = data]
           [] addr = 65350 -> PpuWriteDma(p, data)
           [] addr = 65351 -> [p EXCEPT !.bgp = PaletteFrom(data)]
           [] addr = 65352 -> [p EXCEPT !.obp0 = PaletteFrom(data)]
           [] addr = 65353 -> [p EXCEPT !.obp1 = PaletteFrom(data)]
           [] addr = 65354 -> [p EXCEPT !.wy = data]
           [] addr = 65355 -> [p EXCEPT !.wx = data]

\* Ppu::dma_started / Ppu::stop_dma
dma_started(p) == p.oam_dma_started

stop_dma(p) == [p EXCEPT !.oam_dma_started = FALSE]

bg_tilemap_offset(p) == IF HasBit(p.lcdc, 3) THEN TILEMAP1_OFFSET ELSE TILEMAP0_OFFSET

window_tilemap_offset(p) == IF HasBit(p.lcdc, 6) THEN TILEMAP1_OFFSET ELSE TILEMAP0_OFFSET

tiledata_offset(p) == IF HasBit(p.lcdc, 4) THEN TILEDATA1_OFFSET ELSE TILEDATA0_OFFSET

sprite_size(p) == IF HasBit(p.lcdc, 2) THEN 16 ELSE 8

sprite_on(p) == HasBit(p.lcdc, 1)

window_on(p) == HasBit(p.lcdc, 5)

\* Ppu::switch_mode
switch_mode(p, mode) ==
    CASE mode = "HBlank"         -> [p EXCEPT !.stat = ClearBit(ClearBit(p.stat, 1), 0)]
      [] mode = "VBlank"         -> [p EXCEPT !.stat = SetBit(ClearBit(p.stat, 1), 0)]
      [] mode = "SearchingOAM"   -> [p EXCEPT !.stat = ClearBit(SetBit(p.stat, 1), 0)]
      [] mode = "TransferPixels" -> [p EXCEPT !.stat = SetBit(SetBit(p.stat, 1), 0)]

\* Ppu::update_mode; the result is the new ppu and the lcdc_irq flag
update_mode(p) ==
    IF p.ly > SCREEN_HEIGHT
    THEN [ppu |-> switch_mode(p, "VBlank"), lcdc_irq |-> FALSE]
    ELSE IF p.clock <= 80
    THEN [ppu |-> switch_mode(p, "SearchingOAM"), lcdc_irq |-> FALSE]
    ELSE IF p.clock >= 167 /\ p.clock <= 291
    THEN [ppu |-> switch_mode(p, "TransferPixels"), lcdc_irq |-> FALSE]
    ELSE [ppu |-> switch_mode(p, "HBlank"), lcdc_irq |-> HasBit(p.stat, 3)]

\* Ppu::get_bg_palette / Ppu::get_sprite_palette, indexed by the colour number
PaletteAt(pal, color) ==
    CASE color = 0 -> pal.dot_00
      [] color = 1 -> pal.dot_01
      [] color = 2 -> pal.dot_10
      [] color = 3 -> pal.dot_11

get_sprite_palette(p, flags) == IF HasBit(flags, 4) THEN p.obp1 ELSE p.obp0

\* Ppu::get_tile_addr
get_tile_addr(p, tileid) ==
    IF tiledata_offset(p) = TILEDATA0_OFFSET
    THEN TILEDATA0_OFFSET + Wrap8(tileid + 128) * 16
    ELSE TILEDATA1_OFFSET + tileid * 16

\* entry x + y*8 of the list built from the rows at addr: (msb << 1) + lsb with
\* lsb bit 7-x of byte addr+2y and msb bit 7-x of byte addr+2y+1
TileColor(p, addr, x, y) ==
    Bit(PpuRead8(p, addr + 2 * y + 1), 7 - x) * 2 + Bit(PpuRead8(p, addr + 2 * y), 7 - x)

\* Ppu::get_bg_color
get_bg_color(p, tileid, x, y) == TileColor(p, get_tile_addr(p, tileid), x, y)

\* Ppu::get_sprite_color (its list has 8*height entries and x + y*8 is below that)
get_sprite_color(p, tileid, x, y, height) == TileColor(p, tileid * 16 + TILEDATA1_OFFSET, x, y)

\* the body of the loop of Ppu::build_bg for column x
BgPixel(p, x) ==
    LET y      == (Wrap8(p.ly + p.scy) \div 8) * 32
        index  == ((Wrap8(x + p.scx) \div 8) % 32) + y
        tileid == PpuRead8(p, index + bg_tilemap_offset(p))
        color  == get_bg_color(p, tileid, Wrap8(x + p.scx) % 8, Wrap8(p.ly + p.scy) % 8)
        base   == (p.ly * SCREEN_WIDTH + x) % (SCREEN_HEIGHT * SCREEN_WIDTH)
    IN  [p EXCEPT !.pixels = Put(p.pixels, base, PaletteAt(p.bgp, color))]

\* the iterations lo .. hi-1 of the loop of Ppu::build_bg, in order
RECURSIVE BuildBgFrom(_, _, _)
BuildBgFrom(p, lo, hi) ==
    IF hi - lo = 1 THEN BgPixel(p, lo)
    ELSE LET mid  == (lo + hi) \div 2
             left == BuildBgFrom(p, lo, mid)
         IN  IF Evaluated(left) THEN BuildBgFrom(left, mid, hi) ELSE p

\* Ppu::build_bg
build_bg(p) == BuildBgFrom(p, 0, SCREEN_WIDTH)

\* a loop body that draws the columns left of the window as well
WindowPixel_AllColumns(p, x) ==
    LET posx   == Wrap8(p.wx + 256 - 7)
        y      == (Wrap8(p.ly + 256 - p.wy) \div 8) * 32
        index  == ((Wrap8(x + 256 - posx) \div 8) % 32) + y
        tileid == PpuRead8(p, index + window_tilemap_offset(p))
        color  == get_bg_color(p, tileid, Wrap8(x + 256 - posx) % 8,
                               Wrap8(p.ly + 256 - p.wy) % 8)
        base   == p.ly * SCREEN_WIDTH + x
    IN  [p EXCEPT !.pixels = Put(p.pixels, base, PaletteAt(p.bgp, color))]

\* the body of the loop of Ppu::build_window for column x
WindowPixel(p, x) ==
    LET posx   == Wrap8(p.wx + 256 - 7)
        y      == (Wrap8(p.ly + 256 - p.wy) \div 8) * 32
        index  == ((Wrap8(x + 256 - posx) \div 8) % 32) + y
        tileid == PpuRead8(p, index + window_tilemap_offset(p))
        color  == get_bg_color(p, tileid, Wrap8(x + 256 - posx) % 8,
                               Wrap8(p.ly + 256 - p.wy) % 8)
        base   == p.ly * SCREEN_WIDTH + x
    IN  IF x < posx THEN p
        ELSE [p EXCEPT !.pixels = Put(p.pixels, base, PaletteAt(p.bgp, color))]

\* the iterations lo .. hi-1 of the loop of Ppu::build_window, in order
RECURSIVE BuildWindowFrom(_, _, _)
BuildWindowFrom(p, lo, hi) ==
    IF hi - lo = 1 THEN WindowPixel(p, lo)
    ELSE LET mid  == (lo + hi) \div 2
             left == BuildWindowFrom(p, lo, mid)
         IN  IF Evaluated(left) THEN BuildWindowFrom(left, mid, hi) ELSE p

\* the two early returns of Ppu::build_window
WindowSkipped(p) == (p.wx >= 167 /\ p.wy >= 144) \/ p.ly < p.wy

\* Ppu::build_window
build_window(p) == IF WindowSkipped(p) THEN p ELSE BuildWindowFrom(p, 0, SCREEN_WIDTH)

\* the fields of oam[n]
OamEntry(p, n) ==
    [y |-> Get(p.oam, 4 * n), x |-> Get(p.oam, 4 * n + 1),
     tile |-> Get(p.oam, 4 * n + 2), flags |-> Get(p.oam, 4 * n + 3)]

\* Oam::is_xflip, Oam::is_yflip, Oam::offsetx, Oam::offsety
is_xflip(attr) == HasBit(attr.flags, 5)

is_yflip(attr) == HasBit(attr.flags, 6)

offsetx(attr) == Wrap8(attr.x + 256 - 8)

offsety(attr) == Wrap8(attr.y + 256 - 16)

\* `posy = 7 - y` on u8 with y > 7: a panic in a debug build, a wrap otherwise
SpriteFaults(p, checks) ==
    checks /\ sprite_size(p) = 16 /\
    \E n \in 0..(OAM_SPRITES - 1) : OamEntry(p, n).x # 0 /\ is_yflip(OamEntry(p, n))

\* the body of the inner loops of Ppu::build_sprite for one attr, column x, row y
SpritePixel(p, attr, x, y) ==
    LET height == sprite_size(p)
        posx   == IF is_xflip(attr) THEN 7 - x ELSE x
        posy   == IF is_yflip(attr) THEN Wrap8(7 + 256 - y) ELSE y
        sx     == Wrap8(posx + offsetx(attr))
        sy     == Wrap8(posy + offsety(attr))
        color  == get_sprite_color(p, attr.tile, x % 8, y % height, height)
        base   == (sx + sy * SCREEN_WIDTH) % (SCREEN_HEIGHT * SCREEN_WIDTH)
    IN  IF sx >= SCREEN_WIDTH \/ sy >= SCREEN_HEIGHT \/ color = 0 THEN p
        ELSE [p EXCEPT !.pixels =
                 Put(p.pixels, base, PaletteAt(get_sprite_palette(p, attr.flags), color))]

\* for x in 0..8 { for y in 0..height { ... } }: the iterations lo .. hi-1 in
\* order, iteration k being column k / height, row k % height
RECURSIVE SpriteFrom(_, _, _, _)
SpriteFrom(p, attr, lo, hi) ==
    IF hi - lo = 1 THEN SpritePixel(p, attr, lo \div sprite_size(p), lo % sprite_size(p))
    ELSE LET mid  == (lo + hi) \div 2
             left == SpriteFrom(p, attr, lo, mid)
         IN  IF Evaluated(left) THEN SpriteFrom(left, attr, mid, hi) ELSE p

\* the body of `for attr in self.oam.iter()` for entry n
SpriteEntry(p, n) ==
    IF OamEntry(p, n).x = 0 THEN p
    ELSE SpriteFrom(p, OamEntry(p, n), 0, 8 * sprite_size(p))

\* the entries lo .. hi-1 of the loop over the OAM table, in order
RECURSIVE BuildSpriteFrom(_, _, _)
BuildSpriteFrom(p, lo, hi) ==
    IF hi - lo = 1 THEN SpriteEntry(p, lo)
    ELSE LET mid  == (lo + hi) \div 2
             left == BuildSpriteFrom(p, lo, mid)
         IN  IF Evaluated(left) THEN BuildSpriteFrom(left, mid, hi) ELSE p

\* Ppu::build_sprite (when it does not panic)
build_sprite(p) == BuildSpriteFrom(p, 0, OAM_SPRITES)

\* a line end that wraps LY one line early
LineEnd_WrapAt153(p) ==
    IF p.ly = SCREEN_HEIGHT
    THEN IF sprite_on(p) THEN build_sprite(p) ELSE p
    ELSE IF p.ly >= SCREEN_HEIGHT + LCD_BLANK_HEIGHT - 1
    THEN build_bg([p EXCEPT !.ly = 0])
    ELSE IF p.ly < SCREEN_HEIGHT
    THEN (IF window_on(p) THEN build_window(build_bg(p)) ELSE build_bg(p))
    ELSE p

\* the three-way branch of Ppu::tick at the end of a line (lines 229-245)
LineEnd(p) ==
    IF p.ly = SCREEN_HEIGHT
    THEN IF sprite_on(p) THEN build_sprite(p) ELSE p
    ELSE IF p.ly >= SCREEN_HEIGHT + LCD_BLANK_HEIGHT
    THEN build_bg([p EXCEPT !.ly = 0])
    ELSE IF p.ly < SCREEN_HEIGHT
    THEN (IF window_on(p) THEN build_window(build_bg(p)) ELSE build_bg(p))
    ELSE p

\* the LY = LYC comparison of Ppu::tick (lines 247-254)
LycCompare(p) ==
    IF p.ly = p.lyc THEN [p EXCEPT !.stat = SetBit(p.stat, 2)]
    ELSE switch_mode(p, "HBlank")

\* Ppu::tick; the result is the new ppu, the two requested IRQs and whether
\* the handler panicked
PpuTick(p, checks) ==
    LET um == update_mode(p)
        p1 == [um.ppu EXCEPT !.clock = Wrap16(p.clock + 4)]
    IN  IF p1.clock >= CLOCKS_PER_LINE
        THEN LET vblank == p1.ly = SCREEN_HEIGHT
                 panics == vblank /\ sprite_on(p1) /\ SpriteFaults(p1, checks)
                 p2     == IF panics THEN p1 ELSE LineEnd(p1)
                 lcdc   == \/ um.lcdc_irq
                           \/ vblank /\ HasBit(p1.stat, 4)
                           \/ p2.ly = p2.lyc /\ HasBit(p2.stat, 6)
                 p3     == LycCompare(p2)
             IN  IF panics
                 THEN [ppu |-> p1, vblank_irq |-> FALSE, lcdc_irq |-> FALSE, fault |-> TRUE]
                 ELSE [ppu |-> [p3 EXCEPT !.ly = Wrap8(p3.ly + 1),
                                          !.clock = p3.clock - CLOCKS_PER_LINE],
                       vblank_irq |-> vblank, lcdc_irq |-> lcdc, fault |-> FALSE]
        ELSE [ppu |-> p1, vblank_irq |-> FALSE, lcdc_irq |-> um.lcdc_irq, fault |-> FALSE]

----------------------------------------------------------------------------
(* Apu: the register file behind 0xFF10-0xFF3F.  Bus::read8 never routes a  *)
(* read to it, and every address Bus::write8 routes to it has an arm that   *)
(* stores the byte; the sound channels it feeds are not part of the model.  *)

ApuNew == Zeroes

\* impl Io for Apu: write8
ApuWrite8(a, addr, data) == Put(a, addr, data)

\* the addresses Bus::write8 routes to the Apu
IsApuAddr(addr) ==
    \/ addr >= 65296 /\ addr <= 65300
    \/ addr >= 65302 /\ addr <= 65305
    \/ addr >= 65306 /\ addr <= 65310
    \/ addr >= 65312 /\ addr <= 65318
    \/ addr >= 65328 /\ addr <= 65343

----------------------------------------------------------------------------
(* Bus *)

DMA_START_ADDR == 65350

OAM_START_ADDR == 65024

\* number of bytes Bus::transfer copies (0xA0)
DMA_LENGTH == 160

\* the bus of the current state
Bus ==
    [cartridge |-> cartridge, ram |-> ram, hram |-> hram, ppu |-> ppu, apu |-> apu,
     interrupt |-> interrupt, pad |-> pad, timer |-> timer, fault |-> fault]

\* Bus::_no_cartridge / Bus::from_path
BusNew(cart) ==
    [cartridge |-> cart, ram |-> Zeroes, hram |-> Zeroes, ppu |-> PpuNew, apu |-> ApuNew,
     interrupt |-> InterruptNew, pad |-> PadNew, timer |-> TimerNew, fault |-> FALSE]

\* a bus whose echo decoding keeps 12 address bits instead of 13
EchoOffset_Narrow(addr) == And(addr, 4095)

\* the offset Bus::read8 / Bus::write8 use for 0xE000..0xFDFF
EchoOffset(addr) == And(addr, 8191)

\* impl Io for Bus: read8
BusRead8(b, addr, checks) ==
    IF addr <= 32767 THEN CartridgeRead8(b.cartridge, addr, checks)
    ELSE IF addr <= 40959 THEN PpuRead8(b.ppu, addr)
    ELSE IF addr <= 49151 THEN CartridgeRead8(b.cartridge, addr, checks)
    ELSE IF addr <= 57343 THEN RamRead8(b.ram, RAM_SIZE, And(addr, 8191))
    ELSE IF addr <= 65023 THEN RamRead8(b.ram, RAM_SIZE, EchoOffset(addr))
    ELSE IF addr <= 65183 THEN PpuRead8(b.ppu, addr)
    ELSE IF addr <= 65279 THEN 0
    ELSE IF addr = 65280 THEN PadRead8(b.pad)
    ELSE IF addr >= 65284 /\ addr <= 65287 THEN TimerRead8(b.timer, addr)
    ELSE IF addr = 65295 THEN InterruptRead8(b.interrupt, addr)
    ELSE IF addr >= 65344 /\ addr <= 65355 THEN PpuRead8(b.ppu, addr)
    ELSE IF addr >= 65356 /\ addr <= 65407 THEN 0
    ELSE IF addr >= 65408 /\ addr <= 65534 THEN RamRead8(b.hram, HRAM_SIZE, And(addr, 127))
    ELSE IF addr = 65535 THEN InterruptRead8(b.interrupt, addr)
    ELSE 0

\* impl Io for Bus: write8
BusWrite8(b, addr, data) ==
    IF addr <= 32767 \/ (addr >= 40960 /\ addr <= 49151)
    THEN LET w == CartridgeWrite8(b.cartridge, addr, data)
         IN  [b EXCEPT !.cartridge = w.cart, !.fault = w.fault]
    ELSE IF addr <= 40959 THEN [b EXCEPT !.ppu = PpuWrite8(b.ppu, addr, data)]
    ELSE IF addr <= 57343 THEN [b EXCEPT !.ram = RamWrite8(b.ram, And(addr, 8191), data)]
    ELSE IF addr <= 65023 THEN [b EXCEPT !.ram = RamWrite8(b.ram, EchoOffset(addr), data)]
    ELSE IF addr <= 65183 THEN [b EXCEPT !.ppu = PpuWrite8(b.ppu, addr, data)]
    ELSE IF addr <= 65279 THEN b
    ELSE IF addr = 65280 THEN [b EXCEPT !.pad = PadWrite8(b.pad, data)]
    ELSE IF addr >= 65284 /\ addr <= 65287
    THEN [b EXCEPT !.timer = TimerWrite8(b.timer, addr, data)]
    ELSE IF IsApuAddr(addr) THEN [b EXCEPT !.apu = ApuWrite8(b.apu, addr, data)]
    ELSE IF addr = 65295 THEN [b EXCEPT !.interrupt = InterruptWrite8(b.interrupt, addr, data)]
    ELSE IF addr >= 65344 /\ addr <= 65355 THEN [b EXCEPT !.ppu = PpuWrite8(b.ppu, addr, data)]
    ELSE IF addr >= 65356 /\ addr <= 65407 THEN b
    ELSE IF addr >= 65408 /\ addr <= 65534
    THEN [b EXCEPT !.hram = RamWrite8(b.hram, And(addr, 127), data)]
    ELSE IF addr = 65535 THEN [b EXCEPT !.interrupt = InterruptWrite8(b.interrupt, addr, data)]
    ELSE b

\* one iteration of the loop of Bus::transfer
DmaByte(b, i, checks) ==
    LET addr == BusRead8(b, DMA_START_ADDR, checks) * 256 + i
        data == BusRead8(b, addr, checks)
    IN  IF data = FAULT THEN [b EXCEPT !.fault = TRUE]
        ELSE BusWrite8(b, OAM_START_ADDR + i, data)

\* the iterations lo .. hi-1 of the loop of Bus::transfer, in order; a panic ends it
RECURSIVE DmaFrom(_, _, _, _)
DmaFrom(b, lo, hi, checks) ==
    IF hi - lo = 1 THEN DmaByte(b, lo, checks)
    ELSE LET mid  == (lo + hi) \div 2
             left == DmaFrom(b, lo, mid, checks)
         IN  IF left.fault THEN left ELSE DmaFrom(left, mid, hi, checks)

\* Bus::transfer; the result is the new bus and the returned flag
Transfer(b, checks) ==
    IF dma_started(b.ppu)
    THEN LET b1 == DmaFrom(b, 0, DMA_LENGTH, checks)
         IN  IF b1.fault THEN [bus |-> b1, done |-> FALSE]
             ELSE [bus |-> [b1 EXCEPT !.ppu = stop_dma(b1.ppu)], done |-> TRUE]
    ELSE [bus |-> b, done |-> FALSE]

\* the IRQs Bus::tick raises for the pair returned by Ppu::tick
PpuIrqs(i, vblank_irq, lcdc_irq) ==
    LET i1 == IF vblank_irq THEN set_irq(i, "Vblank") ELSE i
    IN  IF lcdc_irq THEN set_irq(i1, "LcdcStatus") ELSE i1

\* Bus::tick
BusTick(b, checks) ==
    LET pt == PpuTick(b.ppu, checks)
        tt == TimerTick(b.timer)
        i1 == PpuIrqs(b.interrupt, pt.vblank_irq, pt.lcdc_irq)
        i2 == IF tt.overflow THEN set_irq(i1, "Timer") ELSE i1
    IN  IF pt.fault THEN [b EXCEPT !.fault = TRUE]
        ELSE [b EXCEPT !.ppu = pt.ppu, !.timer = tt.timer, !.interrupt = i2]

\* Bus::push_key / Bus::release_key
BusPushKey(b, key) ==
    [b EXCEPT !.pad = PadPushKey(b.pad, key), !.interrupt = set_irq(b.interrupt, "Joypad")]

BusReleaseKey(b, key) == [b EXCEPT !.pad = PadReleaseKey(b.pad, key)]

----------------------------------------------------------------------------
(* Cpu *)

\* Cpu::new / Cpu::from_path
CpuNew ==
    [a |-> 0, b |-> 0, d |-> 0, h |-> 0, c |-> 0, e |-> 0, l |-> 0, f |-> 0,
     sp |-> 65534, pc |-> 256]

\* primary opcodes without an arm in Cpu::decode
UndefinedOpcodes == {211, 219, 221, 227, 228, 235, 236, 237, 244, 252, 253}

\* primary opcodes whose arm of Cpu::decode the model has
ModelledOpcodes ==
    {0, 62, 118, 195, 224, 240, 243, 251} \cup
    {6, 14, 22, 30, 38, 46, 54} \cup {1, 17, 33, 49} \cup {55} \cup
    (128..191) \cup {198, 206, 214, 222, 230, 238, 246, 254} \cup
    {193, 209, 225, 241} \cup {197, 213, 229, 245} \cup
    {196, 204, 212, 220, 201, 205} \cup
    {4, 12, 20, 28, 36, 44, 52, 60} \cup {5, 13, 21, 29, 37, 45, 53, 61} \cup
    {9, 25, 41, 57} \cup {15, 203, 217, 248} \cup
    {24, 32, 40, 48, 56} \cup {194, 202, 210, 218} \cup
    ((64..127) \ ({70, 78, 86, 94, 102, 110, 126} \cup (112..119))) \cup {39}

\* Cpu::fetch
Fetch(c, b, checks) ==
    [cpu |-> [c EXCEPT !.pc = Wrap16(c.pc + 1)], value |-> BusRead8(b, c.pc, checks)]

\* Cpu::fetch16
Fetch16(c, b, checks) ==
    LET lo == Fetch(c, b, checks)
        hi == Fetch(lo.cpu, b, checks)
    IN  [cpu |-> hi.cpu,
         value |-> IF lo.value = FAULT \/ hi.value = FAULT THEN FAULT
                   ELSE Or(Wrap16(hi.value * 256), lo.value)]

\* the result of an instruction that panicked
Panicked(c, b) == [cpu |-> c, bus |-> [b EXCEPT !.fault = TRUE]]

\* 0x3E LD A, #
LdAn(c, b, checks) ==
    LET n == Fetch(c, b, checks)
    IN  IF n.value = FAULT THEN Panicked(c, b)
        ELSE [cpu |-> [n.cpu EXCEPT !.a = n.value], bus |-> b]

\* 0xE0 LDH (n), A
LdhNA(c, b, checks) ==
    LET n == Fetch(c, b, checks)
    IN  IF n.value = FAULT THEN Panicked(c, b)
        ELSE [cpu |-> n.cpu, bus |-> BusWrite8(b, 65280 + n.value, c.a)]

\* 0xF0 LDH A, (n)
LdhAN(c, b, checks) ==
    LET n == Fetch(c, b, checks)
        v == BusRead8(b, 65280 + n.value, checks)
    IN  IF n.value = FAULT \/ v = FAULT THEN Panicked(c, b)
        ELSE [cpu |-> [n.cpu EXCEPT !.a = v], bus |-> b]

\* 0xC3 JP nn
JpNn(c, b, checks) ==
    LET nn == Fetch16(c, b, checks)
    IN  IF nn.value = FAULT THEN Panicked(c, b)
        ELSE [cpu |-> [nn.cpu EXCEPT !.pc = nn.value], bus |-> b]

\* bitflags Flags: all eight bits of the byte are declared
Flags_Z == 128
Flags_N == 64
Flags_H == 32
Flags_C == 16
FLAGS_BITS == 255

\* cpu.f.insert(flag) when on, cpu.f.remove(flag) otherwise
FlagSet(f, flag, on) == IF on THEN Or(f, flag) ELSE And(f, 255 - flag)

\* cpu.f & flag == flag
FlagIs(f, flag) == And(f, flag) = flag

\* the register a 3-bit operand field names: B, C, D, E, H, L, -, A
Reg8(c, i) ==
    CASE i = 0 -> c.b [] i = 1 -> c.c [] i = 2 -> c.d [] i = 3 -> c.e
      [] i = 4 -> c.h [] i = 5 -> c.l [] i = 7 -> c.a

SetReg8(c, i, v) ==
    CASE i = 0 -> [c EXCEPT !.b = v] [] i = 1 -> [c EXCEPT !.c = v]
      [] i = 2 -> [c EXCEPT !.d = v] [] i = 3 -> [c EXCEPT !.e = v]
      [] i = 4 -> [c EXCEPT !.h = v] [] i = 5 -> [c EXCEPT !.l = v]
      [] i = 7 -> [c EXCEPT !.a = v]

\* Cpu::read_af, read_bc, read_de, read_hl
read_af(c) == Or(Wrap16(c.a * 256), c.f)
read_bc(c) == Or(Wrap16(c.b * 256), c.c)
read_de(c) == Or(Wrap16(c.d * 256), c.e)
read_hl(c) == Or(Wrap16(c.h * 256), c.l)

\* Cpu::write_af: every bit of the low byte is a declared flag and is kept
write_af(c, data) ==
    [c EXCEPT !.a = data \div 256, !.f = And(And(data, 255), FLAGS_BITS)]

\* Cpu::write_bc, write_de, write_hl and `cpu.sp = nn`, by the pair 0..3 of
\* the opcode
WritePair(c, k, data) ==
    CASE k = 0 -> [c EXCEPT !.b = data \div 256, !.c = And(data, 255)]
      [] k = 1 -> [c EXCEPT !.d = data \div 256, !.e = And(data, 255)]
      [] k = 2 -> [c EXCEPT !.h = data \div 256, !.l = And(data, 255)]
      [] k = 3 -> [c EXCEPT !.sp = data]

\* Cpu::push; a write that panics leaves the fault on the bus
Push(x, data) ==
    IF x.bus.fault THEN x
    ELSE [cpu |-> [x.cpu EXCEPT !.sp = Wrap16(x.cpu.sp + 65535)],
          bus |-> BusWrite8(x.bus, Wrap16(x.cpu.sp + 65535), data)]

\* Cpu::pop; the result is the new cpu and the byte read
Pop(c, b, checks) ==
    [cpu |-> [c EXCEPT !.sp = Wrap16(c.sp + 1)], value |-> BusRead8(b, c.sp, checks)]

\* 0x06, 0x0E, 0x16, 0x1E, 0x26, 0x2E LD r, n and 0x36 LD (HL), n
LdRN(i, c, b, checks) ==
    LET n == Fetch(c, b, checks)
    IN  IF n.value = FAULT THEN Panicked(c, b)
        ELSE IF i = 6 THEN [cpu |-> n.cpu, bus |-> BusWrite8(b, read_hl(c), n.value)]
        ELSE [cpu |-> SetReg8(n.cpu, i, n.value), bus |-> b]

\* 0x01, 0x11, 0x21, 0x31 LD BC / DE / HL / SP, nn
LdRrNn(k, c, b, checks) ==
    LET nn == Fetch16(c, b, checks)
    IN  IF nn.value = FAULT THEN Panicked(c, b)
        ELSE [cpu |-> WritePair(nn.cpu, k, nn.value), bus |-> b]

\* 0x37 SCF
Scf(c) == [c EXCEPT !.f = FlagSet(FlagSet(FlagSet(c.f, Flags_C, TRUE), Flags_N, FALSE),
                                   Flags_H, FALSE)]

\* the flag updates of ADD and ADC: n is the operand added, than is the
\* value the result is compared with for the carry (a, but n in ADD A, E)
AluAdd(c, n, than) ==
    LET r == Wrap8(c.a + n)
    IN  [c EXCEPT !.a = r,
                  !.f = FlagSet(FlagSet(FlagSet(FlagSet(c.f,
                            Flags_Z, r = 0),
                            Flags_N, FALSE),
                            Flags_H, And(Xor(Xor(r, c.a), n), 16) = 16),
                            Flags_C, r < than)]

\* the flag updates of a subtraction whose half-borrow test compares the whole
\* bytes instead of the low nibbles
SubFlags_WholeByte(c, n, zero) ==
    FlagSet(FlagSet(FlagSet(FlagSet(c.f,
        Flags_Z, zero),
        Flags_N, TRUE),
        Flags_H, c.a < n),
        Flags_C, c.a < n)

\* the flag updates of SUB, SBC and CP
SubFlags(c, n, zero) ==
    FlagSet(FlagSet(FlagSet(FlagSet(c.f,
        Flags_Z, zero),
        Flags_N, TRUE),
        Flags_H, And(c.a, 15) < And(n, 15)),
        Flags_C, c.a < n)

\* SUB and SBC: n is the operand subtracted
AluSub(c, n) ==
    [c EXCEPT !.a = Wrap8(c.a + 256 - n), !.f = SubFlags(c, n, Wrap8(c.a + 256 - n) = 0)]

\* CP
AluCp(c, n) == [c EXCEPT !.f = SubFlags(c, n, c.a = n)]

\* AND, XOR and OR: r is the result; all three insert H
AluLogic(c, r) ==
    [c EXCEPT !.a = r,
              !.f = FlagSet(FlagSet(FlagSet(FlagSet(c.f,
                        Flags_Z, r = 0),
                        Flags_N, FALSE),
                        Flags_H, TRUE),
                        Flags_C, FALSE)]

\* `let c = (cpu.f & Flags::C == Flags::C) as u8`
CarryIn(c) == IF FlagIs(c.f, Flags_C) THEN 1 ELSE 0

\* the body of an arithmetic or logic instruction on A for the operand x that
\* was read; family 0..7 is ADD, ADC, SUB, SBC, AND, XOR, OR, CP
Alu(family, c, x, opcode) ==
    CASE family = 0 -> AluAdd(c, x, IF opcode = 131 THEN x ELSE c.a)
      [] family = 1 -> AluAdd(c, Wrap8(x + CarryIn(c)), c.a)
      [] family = 2 -> AluSub(c, x)
      [] family = 3 -> AluSub(c, Wrap8(x + CarryIn(c)))
      [] family = 4 -> AluLogic(c, And(c.a, x))
      [] family = 5 -> AluLogic(c, Xor(c.a, x))
      [] family = 6 -> AluLogic(c, Or(c.a, x))
      [] family = 7 -> AluCp(c, x)

\* 0x80..0xBF: the operand is a register or the byte at (HL)
AluR(opcode, c, b, checks) ==
    LET x == IF opcode % 8 = 6 THEN BusRead8(b, read_hl(c), checks)
             ELSE Reg8(c, opcode % 8)
    IN  IF x = FAULT THEN Panicked(c, b)
        ELSE [cpu |-> Alu((opcode - 128) \div 8, c, x, opcode), bus |-> b]

\* 0xC6, 0xCE, 0xD6, 0xDE, 0xE6, 0xEE, 0xF6, 0xFE: the operand is fetched
AluN(opcode, c, b, checks) ==
    LET n == Fetch(c, b, checks)
    IN  IF n.value = FAULT THEN Panicked(c, b)
        ELSE [cpu |-> Alu((opcode - 198) \div 8, n.cpu, n.value, opcode), bus |-> b]

\* 0xC5, 0xD5, 0xE5, 0xF5 PUSH BC / DE / HL / AF: high byte, then low byte
PushRr(k, c, b) ==
    LET rr == CASE k = 0 -> read_bc(c) [] k = 1 -> read_de(c)
                [] k = 2 -> read_hl(c) [] k = 3 -> read_af(c)
    IN  Push(Push([cpu |-> c, bus |-> b], rr \div 256), rr % 256)

\* 0xC1, 0xD1, 0xE1, 0xF1 POP BC / DE / HL / AF: low byte, then high byte;
\* POP AF builds F with Flags::from_bits_truncate
PopRr(k, c, b, checks) ==
    LET lo == Pop(c, b, checks)
        hi == Pop(lo.cpu, b, checks)
    IN  IF lo.value = FAULT \/ hi.value = FAULT THEN Panicked(c, b)
        ELSE [cpu |-> IF k = 3 THEN write_af(hi.cpu, hi.value * 256 + lo.value)
                      ELSE WritePair(hi.cpu, k, hi.value * 256 + lo.value),
              bus |-> b]

\* `cpu.pc += 1` of the CALL arms: a u16 addition, which panics on overflow
\* when the build checks it and wraps otherwise
PcOverflows(c, checks) == checks /\ c.pc >= 65534

\* 0xCD CALL nn and 0xC4, 0xCC, 0xD4, 0xDC CALL cc, nn once the condition
\* has been evaluated as taken
Call(c, b, checks, taken) ==
    LET lo  == BusRead8(b, c.pc, checks)
        hi  == BusRead8(b, Wrap16(c.pc + 1), checks)
        ret == Wrap16(c.pc + 2)
        c2  == [c EXCEPT !.pc = ret]
    IN  IF lo = FAULT \/ hi = FAULT \/ PcOverflows(c, checks) THEN Panicked(c, b)
        ELSE IF ~taken THEN [cpu |-> c2, bus |-> b]
        ELSE LET x == Push(Push([cpu |-> c2, bus |-> b], ret \div 256), ret % 256)
             IN  [cpu |-> [x.cpu EXCEPT !.pc = Or(hi * 256, lo)], bus |-> x.bus]

\* the condition of CALL cc, nn: 0xC4 NZ, 0xCC Z, 0xD4 NC, 0xDC C
CallCondition(opcode, c) ==
    CASE opcode = 196 -> ~FlagIs(c.f, Flags_Z)
      [] opcode = 204 -> FlagIs(c.f, Flags_Z)
      [] opcode = 212 -> ~FlagIs(c.f, Flags_C)
      [] opcode = 220 -> FlagIs(c.f, Flags_C)

\* 0xC9 RET
Ret(c, b, checks) ==
    LET lo == Pop(c, b, checks)
        hi == Pop(lo.cpu, b, checks)
    IN  IF lo.value = FAULT \/ hi.value = FAULT THEN Panicked(c, b)
        ELSE [cpu |-> [hi.cpu EXCEPT !.pc = hi.value * 256 + lo.value], bus |-> b]

\* the flag updates of INC and DEC: r is the new value, v the old one; both
\* remove N, and neither touches C
IncDecFlags(f, zero, r, v) ==
    FlagSet(FlagSet(FlagSet(f,
        Flags_Z, zero),
        Flags_N, FALSE),
        Flags_H, And(Xor(Xor(r, v), 1), 16) = 16)

\* 0x04, 0x0C, 0x14, 0x1C, 0x24, 0x2C, 0x3C INC r (delta 1) and
\* 0x05, 0x0D, 0x15, 0x1D, 0x25, 0x2D, 0x3D DEC r (delta 255)
IncDecR(i, c, delta) ==
    LET v == Reg8(c, i)
        r == Wrap8(v + delta)
    IN  [SetReg8(c, i, r) EXCEPT !.f = IncDecFlags(c.f, r = 0, r, v)]

\* 0x34 INC (HL) (delta 1) and 0x35 DEC (HL) (delta 255): the byte is written
\* and read back; DEC (HL) takes Z from register B
IncDecHl(c, b, checks, delta) ==
    LET addr == read_hl(c)
        n    == BusRead8(b, addr, checks)
        b2   == BusWrite8(b, addr, Wrap8(n + delta))
        back == BusRead8(b2, addr, checks)
    IN  IF n = FAULT THEN Panicked(c, b)
        ELSE IF b2.fault \/ back = FAULT THEN Panicked(c, b2)
        ELSE [cpu |-> [c EXCEPT !.f = IncDecFlags(c.f, IF delta = 1 THEN back = 0 ELSE c.b = 0,
                                                  back, n)],
              bus |-> b2]

\* 0x09, 0x19, 0x29, 0x39 ADD HL, BC / DE / HL / SP: H tests bit 8 of
\* result ^ hl ^ rr
AddHl(k, c) ==
    LET hl == read_hl(c)
        rr == CASE k = 0 -> read_bc(c) [] k = 1 -> read_de(c)
                [] k = 2 -> read_hl(c) [] k = 3 -> c.sp
        r  == Wrap16(hl + rr)
    IN  [WritePair(c, 2, r) EXCEPT
            !.f = FlagSet(FlagSet(FlagSet(c.f,
                      Flags_N, FALSE),
                      Flags_H, And(Xor(Xor(r, hl), rr), 256) = 256),
                      Flags_C, r < hl)]

\* `as i8 as i16` of a byte
Signed8(v) == IF v >= 128 THEN v - 256 ELSE v

\* `as i16` of a u16
Signed16(v) == IF v >= 32768 THEN v - 65536 ELSE v

\* 0xF8 LDHL SP, n: H is set when the offset is not negative, C when the sum
\* is below SP
LdhlSp(c, b, checks) ==
    LET n     == Fetch(c, b, checks)
        value == (c.sp + Signed8(n.value)) % 65536
    IN  IF n.value = FAULT THEN Panicked(c, b)
        ELSE [cpu |-> [WritePair(n.cpu, 2, value) EXCEPT
                          !.f = FlagSet(FlagSet(FlagSet(FlagSet(c.f,
                                    Flags_Z, FALSE),
                                    Flags_N, FALSE),
                                    Flags_H, Signed8(n.value) >= 0),
                                    Flags_C, c.sp > value)],
              bus |-> b]

\* 0x0F RRCA
Rrca(c) ==
    LET r == (c.a \div 2) + 128 * (c.a % 2)
    IN  [c EXCEPT !.a = r,
                  !.f = FlagSet(FlagSet(FlagSet(FlagSet(c.f,
                            Flags_Z, r = 0),
                            Flags_N, FALSE),
                            Flags_H, FALSE),
                            Flags_C, c.a % 2 = 1)]

\* the flag updates of the CB page: Z from the result, N and H removed
CbFlags(f, r, carry) ==
    FlagSet(FlagSet(FlagSet(FlagSet(f,
        Flags_Z, r = 0),
        Flags_N, FALSE),
        Flags_H, FALSE),
        Flags_C, carry)

\* CB 0x08..0x0F RRC: the value shifted right with the incoming carry flag
\* entering bit 7
RrcValue(v, f) == Or(v \div 2, IF FlagIs(f, Flags_C) THEN 128 ELSE 0)

\* CB 0x30..0x37 SWAP: `hi | lo` of the two nibbles where they are
SwapValue(v) == Or(And(v, 240), And(v, 15))

\* the register a CB arm works on: the arm of RRC D (CB 0x0A) works on A
CbRegister(opcode) == IF opcode = 10 THEN 7 ELSE opcode % 8

\* a CB arm on a register: 0x08..0x0D, 0x0F RRC and 0x30..0x35, 0x37 SWAP
CbR(opcode, c) ==
    LET v == Reg8(c, CbRegister(opcode))
        r == IF opcode \in 8..15 THEN RrcValue(v, c.f) ELSE SwapValue(v)
    IN  [SetReg8(c, CbRegister(opcode), r) EXCEPT
            !.f = CbFlags(c.f, r, opcode \in 8..15 /\ v % 2 = 1)]

\* the writes of a CB arm to the byte v at (HL): RRC (HL) writes v >> 1 and,
\* with the carry flag set, writes the byte read back with bit 7 set;
\* SWAP (HL) writes hi | lo
CbHlWrites(opcode, c, b, addr, v, checks) ==
    IF opcode = 54 THEN BusWrite8(b, addr, SwapValue(v))
    ELSE IF ~FlagIs(c.f, Flags_C) THEN BusWrite8(b, addr, v \div 2)
    ELSE IF BusWrite8(b, addr, v \div 2).fault
              \/ BusRead8(BusWrite8(b, addr, v \div 2), addr, checks) = FAULT
         THEN [b EXCEPT !.fault = TRUE]
    ELSE BusWrite8(BusWrite8(b, addr, v \div 2), addr,
                   Or(BusRead8(BusWrite8(b, addr, v \div 2), addr, checks), 128))

\* CB 0x0E RRC (HL) and CB 0x36 SWAP (HL): Z is taken from the byte read back
CbHl(opcode, c, b, checks) ==
    LET addr == read_hl(c)
        v    == BusRead8(b, addr, checks)
        b2   == CbHlWrites(opcode, c, b, addr, v, checks)
        back == BusRead8(b2, addr, checks)
    IN  IF v = FAULT THEN Panicked(c, b)
        ELSE IF b2.fault \/ back = FAULT THEN Panicked(c, b2)
        ELSE [cpu |-> [c EXCEPT !.f = CbFlags(c.f, back, opcode = 14 /\ v % 2 = 1)],
              bus |-> b2]

\* the arms of Cpu::decode_cb the model has
CbArm(opcode, c, b, checks) ==
    IF opcode % 8 = 6 THEN CbHl(opcode, c, b, checks) ELSE [cpu |-> CbR(opcode, c), bus |-> b]

\* 0xCB: the second opcode byte is fetched and Cpu::decode_cb picks the arm
DecodeCb(c, b, checks) ==
    LET n == Fetch(c, b, checks)
    IN  IF n.value = FAULT \/ n.value \notin (8..15) \cup (48..55) THEN Panicked(c, b)
        ELSE CbArm(n.value, n.cpu, b, checks)

\* the condition of JP cc, nn as the arms test it: 0xC2 NZ, 0xCA Z, 0xD2 NC,
\* and 0xDA tests `cpu.f & Flags::C != Flags::C` as 0xD2 does
JpCondition(opcode, c) ==
    CASE opcode = 194 -> ~FlagIs(c.f, Flags_Z)
      [] opcode = 202 -> FlagIs(c.f, Flags_Z)
      [] opcode = 210 -> ~FlagIs(c.f, Flags_C)
      [] opcode = 218 -> ~FlagIs(c.f, Flags_C)

\* 0xC2, 0xCA, 0xD2, 0xDA JP cc, nn: the operand is fetched only when the
\* jump is taken
JpCc(opcode, c, b, checks) ==
    IF JpCondition(opcode, c) THEN JpNn(c, b, checks) ELSE [cpu |-> c, bus |-> b]

\* the condition of JR cc, e: 0x20 NZ, 0x28 Z, 0x30 NC, 0x38 C (0x18 always)
JrCondition(opcode, c) ==
    CASE opcode = 24 -> TRUE
      [] opcode = 32 -> ~FlagIs(c.f, Flags_Z)
      [] opcode = 40 -> FlagIs(c.f, Flags_Z)
      [] opcode = 48 -> ~FlagIs(c.f, Flags_C)
      [] opcode = 56 -> FlagIs(c.f, Flags_C)

\* 0x18 JR e and 0x20, 0x28, 0x30, 0x38 JR cc, e:
\* `cpu.pc = (cpu.pc as i16 + e) as u16`, an i16 addition that panics on
\* overflow in a build with overflow checks
Jr(opcode, c, b, checks) ==
    LET e   == Fetch(c, b, checks)
        sum == Signed16(e.cpu.pc) + Signed8(e.value)
    IN  IF e.value = FAULT THEN Panicked(c, b)
        ELSE IF ~JrCondition(opcode, c) THEN [cpu |-> e.cpu, bus |-> b]
        ELSE IF checks /\ sum \notin -32768..32767 THEN Panicked(e.cpu, b)
        ELSE [cpu |-> [e.cpu EXCEPT !.pc = sum % 65536], bus |-> b]

\* a RETI that returns without enabling interrupts
Reti_NoEnable(c, b, checks) == Ret(c, b, checks)

\* 0xD9 RETI: RET, then cpu.bus.enable_irq()
Reti(c, b, checks) ==
    LET r == Ret(c, b, checks)
    IN  IF r.bus.fault THEN r
        ELSE [cpu |-> r.cpu, bus |-> [r.bus EXCEPT !.interrupt = enable(r.bus.interrupt)]]

\* 0x27 DAA: with N set the arm adds, with N clear it subtracts; each
\* adjustment starts from the A the instruction found, so the second one
\* replaces the first; `cpu.f & Flags::C == Flags::H` compares C with H
Daa(c) ==
    LET a  == c.a
        a1 == IF FlagIs(c.f, Flags_N)
              THEN (IF FlagIs(c.f, Flags_H) \/ And(a, 15) > 9 THEN Wrap8(a + 6) ELSE a)
              ELSE (IF FlagIs(c.f, Flags_H) THEN Wrap8(a + 256 - 6) ELSE a)
        a2 == IF FlagIs(c.f, Flags_N)
              THEN (IF And(c.f, Flags_C) = Flags_H \/ a > 159 THEN Wrap8(a + 96) ELSE a1)
              ELSE (IF FlagIs(c.f, Flags_C) THEN Wrap8(a + 256 - 96) ELSE a1)
    IN  [c EXCEPT !.a = a2,
                  !.f = FlagSet(FlagSet(FlagSet(c.f, Flags_Z, a2 = 0), Flags_H, FALSE),
                                Flags_C, a2 < a)]

\* 0x40 LD B, B .. 0x7F LD A, A without the (HL) forms: the register the arm
\* assigns; the arm of 0x5B LD E, E assigns cpu.b
LdRRDest(opcode) == IF opcode = 91 THEN 0 ELSE (opcode - 64) \div 8

LdRR(opcode, c) == SetReg8(c, LdRRDest(opcode), Reg8(c, (opcode - 64) % 8))

\* Cpu::decode followed by Cpu::execute for an opcode already fetched;
\* an opcode without an arm hits unimplemented!() and panics
Execute(opcode, c, b, checks) ==
    CASE opcode = 0   -> [cpu |-> c, bus |-> b]
      [] opcode \in {6, 14, 22, 30, 38, 46, 54} -> LdRN((opcode - 6) \div 8, c, b, checks)
      [] opcode \in {1, 17, 33, 49} -> LdRrNn((opcode - 1) \div 16, c, b, checks)
      [] opcode = 39  -> [cpu |-> Daa(c), bus |-> b]
      [] opcode = 55  -> [cpu |-> Scf(c), bus |-> b]
      [] opcode = 62  -> LdAn(c, b, checks)
      [] opcode = 118 -> [cpu |-> c, bus |-> b]
      [] opcode \in (64..127) \ ({70, 78, 86, 94, 102, 110, 126} \cup (112..119)) ->
             [cpu |-> LdRR(opcode, c), bus |-> b]
      [] opcode \in 128..191 -> AluR(opcode, c, b, checks)
      [] opcode \in {198, 206, 214, 222, 230, 238, 246, 254} -> AluN(opcode, c, b, checks)
      [] opcode \in {193, 209, 225, 241} -> PopRr((opcode - 193) \div 16, c, b, checks)
      [] opcode \in {197, 213, 229, 245} -> PushRr((opcode - 197) \div 16, c, b)
      [] opcode = 195 -> JpNn(c, b, checks)
      [] opcode \in {196, 204, 212, 220} -> Call(c, b, checks, CallCondition(opcode, c))
      [] opcode = 201 -> Ret(c, b, checks)
      [] opcode = 205 -> Call(c, b, checks, TRUE)
      [] opcode = 224 -> LdhNA(c, b, checks)
      [] opcode = 240 -> LdhAN(c, b, checks)
      [] opcode \in {4, 12, 20, 28, 36, 44, 60} -> [cpu |-> IncDecR((opcode - 4) \div 8, c, 1), bus |-> b]
      [] opcode \in {5, 13, 21, 29, 37, 45, 61} -> [cpu |-> IncDecR((opcode - 5) \div 8, c, 255), bus |-> b]
      [] opcode = 52  -> IncDecHl(c, b, checks, 1)
      [] opcode = 53  -> IncDecHl(c, b, checks, 255)
      [] opcode \in {9, 25, 41, 57} -> [cpu |-> AddHl((opcode - 9) \div 16, c), bus |-> b]
      [] opcode = 15  -> [cpu |-> Rrca(c), bus |-> b]
      [] opcode \in {24, 32, 40, 48, 56} -> Jr(opcode, c, b, checks)
      [] opcode \in {194, 202, 210, 218} -> JpCc(opcode, c, b, checks)
      [] opcode = 203 -> DecodeCb(c, b, checks)
      [] opcode = 217 -> Reti(c, b, checks)
      [] opcode = 248 -> LdhlSp(c, b, checks)
      [] opcode = 243 -> [cpu |-> c, bus |-> [b EXCEPT !.interrupt = disable(b.interrupt)]]
      [] opcode = 251 -> [cpu |-> c, bus |-> [b EXCEPT !.interrupt = enable(b.interrupt)]]
      [] OTHER        -> Panicked(c, b)

\* the body of `if !self.bus.transfer() { ... }` in Cpu::tick:
\* fetch, decode and execute one instruction
FetchDecodeExecute(c, b, checks) ==
    LET op == Fetch(c, b, checks)
    IN  IF op.value = FAULT THEN Panicked(c, b) @@ [opcode |-> None]
        ELSE Execute(op.value, op.cpu, b, checks) @@ [opcode |-> op.value]

\* the end of Cpu::tick: self.bus.tick(), which a panic before it never reaches;
\* x is the cpu and bus (and the opcode fetched) after the instruction
TickBus(x, dma, checks) ==
    [cpu |-> x.cpu,
     bus |-> IF x.bus.fault THEN x.bus ELSE BusTick(x.bus, checks),
     dma |-> dma, opcode |-> x.opcode]

\* Cpu::tick after self.bus.transfer() returned t: the instruction is
\* fetched and executed only when the transfer reported false
TickAfterTransfer(c, t, checks) ==
    TickBus(IF t.done \/ t.bus.fault
            THEN [cpu |-> c, bus |-> t.bus, opcode |-> None]
            ELSE FetchDecodeExecute(c, t.bus, checks),
            t.done, checks)

\* Cpu::tick; the result is the new cpu and bus, whether Bus::transfer returned
\* true, and the opcode that was fetched (None when no fetch took place)
CpuTick(c, b, checks) == TickAfterTransfer(c, Transfer(b, checks), checks)

----------------------------------------------------------------------------
(* State machine *)

\* the assignment of a bus record to the variables of the bus
SetBus(b) ==
    /\ cartridge' = b.cartridge
    /\ ram' = b.ram
    /\ hram' = b.hram
    /\ ppu' = b.ppu
    /\ apu' = b.apu
    /\ interrupt' = b.interrupt
    /\ pad' = b.pad
    /\ timer' = b.timer
    /\ fault' = b.fault

\* the variables of the bus hold the bus record b
BusIs(b) ==
    /\ cartridge = b.cartridge
    /\ ram = b.ram
    /\ hram = b.hram
    /\ ppu = b.ppu
    /\ apu = b.apu
    /\ interrupt = b.interrupt
    /\ pad = b.pad
    /\ timer = b.timer
    /\ fault = b.fault

\* the state after Cpu::new / Cpu::from_path with the given cartridge and build
InitWith(cart, checks) ==
    /\ BusIs(BusNew(cart))
    /\ cpu = CpuNew
    /\ overflowChecks = checks
    /\ lastOp = [op |-> "new"]
    /\ shadow = Zeroes
    /\ nops = 0

----------------------------------------------------------------------------
(* Work RAM, high RAM, VRAM and OAM through the bus (SpecMem) *)

\* number of writes explored
MaxMemWrites == 3

\* first, second and last byte of each region and of the echo
MemAddrs ==
    { 32768, 40959,                 \* VRAM 0x8000, 0x9FFF
      49152, 49153, 56831,          \* work RAM 0xC000, 0xC001, 0xDDFF
      57344, 57345, 65023,          \* echo 0xE000, 0xE001, 0xFDFF
      65024, 65027, 65183,          \* OAM 0xFE00, 0xFE03 (flags of entry 0), 0xFE9F
      65408, 65534 }                \* high RAM 0xFF80, 0xFFFE

MemData == {0, 165, 255}

\* the cell an address denotes: an echo address and its work-RAM address are one cell
Cell(addr) == IF addr >= 57344 /\ addr <= 65023 THEN addr - 8192 ELSE addr

MemInit == InitWith(NoCartridge, FALSE)

\* cpu.bus.write8(addr, data) on a memory address
MemWrite ==
    \E addr \in MemAddrs, data \in MemData :
        /\ ~fault
        /\ nops < MaxMemWrites
        /\ SetBus(BusWrite8(Bus, addr, data))
        /\ shadow' = Put(shadow, Cell(addr), data)
        /\ lastOp' = [op |-> "write8", addr |-> addr, data |-> data]
        /\ nops' = nops + 1
        /\ UNCHANGED <<cpu, overflowChecks>>

\* cpu.bus.read8(addr) on a memory address
MemRead ==
    \E addr \in MemAddrs :
        /\ ~fault
        /\ nops < MaxMemWrites
        /\ lastOp' = [op |-> "read8", addr |-> addr,
                      value |-> BusRead8(Bus, addr, overflowChecks)]
        /\ nops' = nops + 1
        /\ UNCHANGED <<cartridge, ram, hram, ppu, apu, interrupt, pad, timer, fault,
                       cpu, overflowChecks, shadow>>

MemNext == MemWrite \/ MemRead

SpecMem == MemInit /\ [][MemNext]_vars

\* C3: every read of a work-RAM, echo, high-RAM, VRAM or OAM address returns
\* the byte most recently written to the cell the address denotes (0 when the
\* cell was never written), an echo address and its work-RAM address being the
\* same cell; so no write changes another cell.
C3_ReadReturnsLastWrite ==
    /\ \A addr \in MemAddrs :
           BusRead8(Bus, addr, overflowChecks) = Get(shadow, Cell(addr))
    /\ lastOp.op = "read8" => lastOp.value = Get(shadow, Cell(lastOp.addr))

\* a byte written through the echo was read back at the work-RAM address
C3_Witness ==
    /\ lastOp.op = "read8" /\ lastOp.addr = 56831 /\ lastOp.value = 165
    /\ Get(shadow, 49152) = 255
    /\ Get(ram, 7679) = 165

----------------------------------------------------------------------------
(* Every arm of Bus::read8 / Bus::write8 (SpecBus) *)

\* number of bus operations explored
MaxBusOps == 2

\* one address in each arm of the two matches, and in each register range of Mbc1
BusAddrs ==
    { 0, 8192, 16384, 24576,        \* cartridge 0x0000, 0x2000, 0x4000, 0x6000
      32768, 40960, 49152, 57344,   \* VRAM, cartridge RAM 0xA000, work RAM, echo
      65024, 65184,                 \* OAM 0xFE00, unusable 0xFEA0
      65280, 65281, 65284, 65295,   \* pad, unmapped 0xFF01, DIV, IF
      65296, 65344, 65350, 65356,   \* Apu 0xFF10, LCDC, DMA, unusable 0xFF4C
      65408, 65535 }                \* high RAM, IE

BusData == {0, 10, 255}

\* length of the ROM file of the Mbc1 cartridges explored (four banks)
Mbc1RomLen == 65536

\* RAM sizes Cartridge::from_path allocates for header codes 0 and 1
Mbc1RamLens == {0, 16384}

\* the cartridges explored: the NoMbc one and Mbc1 ones with an all-zero image
Cartridges ==
    {NoCartridge} \cup
    {CartridgeFromPath("Mbc1", Zeroes, Mbc1RomLen, n) : n \in Mbc1RamLens}

BusInit == \E cart \in Cartridges, checks \in BOOLEAN : InitWith(cart, checks)

\* bus.write8(addr, data)
BusWrite ==
    \E addr \in BusAddrs, data \in BusData :
        /\ ~fault
        /\ nops < MaxBusOps
        /\ SetBus(BusWrite8(Bus, addr, data))
        /\ lastOp' = [op |-> "write8", addr |-> addr, data |-> data]
        /\ nops' = nops + 1
        /\ UNCHANGED <<cpu, overflowChecks, shadow>>

\* bus.read8(addr)
BusRead ==
    \E addr \in BusAddrs :
        /\ ~fault
        /\ nops < MaxBusOps
        /\ LET v == BusRead8(Bus, addr, overflowChecks)
           IN  /\ lastOp' = [op |-> "read8", addr |-> addr, value |-> v]
               /\ fault' = (v = FAULT)
        /\ nops' = nops + 1
        /\ UNCHANGED <<cartridge, ram, hram, ppu, apu, interrupt, pad, timer,
                       cpu, overflowChecks, shadow>>

BusNext == BusWrite \/ BusRead

SpecBus == BusInit /\ [][BusNext]_vars

\* C6: for every address, data byte and cartridge variant, in every state
\* reachable through bus writes, read8 and write8 complete without a panic.
C6_NoFault == ~fault

----------------------------------------------------------------------------
(* OAM DMA (SpecDma) *)

\* number of bus operations explored
MaxDmaOps == 3

\* first and last page of every region of the address map
DmaPages == {0, 63, 64, 127, 128, 159, 160, 191, 192, 223, 224, 253, 254, 255}

\* source bytes: work RAM 0xC000 and 0xC09F, VRAM 0x8000, OAM 0xFE01
DmaSrcAddrs == {49152, 49311, 32768, 65025}

DmaSrcData == {90}

\* cpu.bus.write8(addr, data) on a source byte
DmaSource ==
    \E addr \in DmaSrcAddrs, data \in DmaSrcData :
        /\ ~fault
        /\ nops < MaxDmaOps
        /\ SetBus(BusWrite8(Bus, addr, data))
        /\ lastOp' = [op |-> "write8", addr |-> addr, data |-> data]
        /\ nops' = nops + 1
        /\ UNCHANGED <<cpu, overflowChecks, shadow>>

\* cpu.bus.write8(0xFF46, d)
DmaWrite ==
    \E d \in DmaPages :
        /\ ~fault
        /\ nops < MaxDmaOps
        /\ SetBus(BusWrite8(Bus, DMA_START_ADDR, d))
        /\ lastOp' = [op |-> "write8", addr |-> DMA_START_ADDR, data |-> d]
        /\ nops' = nops + 1
        /\ UNCHANGED <<cpu, overflowChecks, shadow>>

\* bus.transfer()
DmaService ==
    /\ ~fault
    /\ nops < MaxDmaOps
    /\ LET t == Transfer(Bus, overflowChecks)
       IN  /\ SetBus(t.bus)
           /\ lastOp' = [op |-> "transfer", pending |-> dma_started(ppu), done |-> t.done]
    /\ nops' = nops + 1
    /\ UNCHANGED <<cpu, overflowChecks, shadow>>

DmaNext == DmaSource \/ DmaWrite \/ DmaService

SpecDma == BusInit /\ [][DmaNext]_vars

\* OAM byte i as the bus shows it
OamByte(b, i) == BusRead8(b, OAM_START_ADDR + i, FALSE)

\* C4: for every source page d and both cartridge variants, after d was
\* written to 0xFF46 and the DMA was serviced, OAM byte i equals the
\* bus-visible byte at d*256+i for all 160 bytes.
C4_DmaCopiesPage ==
    (lastOp.op = "transfer" /\ lastOp.pending) =>
        /\ ~fault
        /\ \A i \in 0..(DMA_LENGTH - 1) :
               OamByte(Bus, i) = BusRead8(Bus, ppu.dma * 256 + i, overflowChecks)

\* the steps C5 speaks of
C5_WriteStep == lastOp'.op = "write8" /\ lastOp'.addr = DMA_START_ADDR

C5_ServiceStep == lastOp'.op = "transfer"

\* C5: a write of d to 0xFF46 stores d in the DMA register and sets the latch,
\* leaving OAM unchanged; the latch stays set until the next service, which
\* copies the 160 bytes and clears the latch; a service with the latch clear
\* changes no state.
C5_LatchProtocol ==
    [][ /\ C5_WriteStep =>
            /\ ppu'.dma = lastOp'.data
            /\ ppu'.oam_dma_started
            /\ ppu'.oam = ppu.oam
        /\ (ppu.oam_dma_started /\ ~C5_ServiceStep) => ppu'.oam_dma_started
        /\ (C5_ServiceStep /\ ppu.oam_dma_started) =>
            /\ ~fault'
            /\ ~ppu'.oam_dma_started
            /\ \A i \in 0..(DMA_LENGTH - 1) :
                   OamByte(Bus', i) = BusRead8(Bus, ppu.dma * 256 + i, overflowChecks)
        /\ (C5_ServiceStep /\ ~ppu.oam_dma_started) => UNCHANGED busVars
      ]_vars

----------------------------------------------------------------------------
(* Interrupt controller (SpecIrq) *)

\* number of controller operations explored
MaxIrqOps == 3

\* bytes written to IF and IE: each bit alone, mixes, and the unused high bits
IrqData == {0, 1, 2, 4, 8, 16, 6, 31, 224, 244, 255}

IrqInit == InitWith(NoCartridge, FALSE)

\* bus.write8(0xFF0F, data) / bus.write8(0xFFFF, data)
IrqWrite ==
    \E addr \in {65295, 65535}, data \in IrqData :
        /\ nops < MaxIrqOps
        /\ SetBus(BusWrite8(Bus, addr, data))
        /\ lastOp' = [op |-> "write8", addr |-> addr, data |-> data]
        /\ nops' = nops + 1
        /\ UNCHANGED <<cpu, overflowChecks, shadow>>

\* bus.enable_irq()
IrqEnable ==
    /\ nops < MaxIrqOps
    /\ interrupt' = enable(interrupt)
    /\ lastOp' = [op |-> "enable_irq"]
    /\ nops' = nops + 1
    /\ UNCHANGED <<cartridge, ram, hram, ppu, apu, pad, timer, fault,
                   cpu, overflowChecks, shadow>>

\* bus.disable_irq()
IrqDisable ==
    /\ nops < MaxIrqOps
    /\ interrupt' = disable(interrupt)
    /\ lastOp' = [op |-> "disable_irq"]
    /\ nops' = nops + 1
    /\ UNCHANGED <<cartridge, ram, hram, ppu, apu, pad, timer, fault,
                   cpu, overflowChecks, shadow>>

\* interrupt.set_irq(kind)
IrqSet ==
    \E kind \in InterruptKind :
        /\ nops < MaxIrqOps
        /\ interrupt' = set_irq(interrupt, kind)
        /\ lastOp' = [op |-> "set_irq", kind |-> kind]
        /\ nops' = nops + 1
        /\ UNCHANGED <<cartridge, ram, hram, ppu, apu, pad, timer, fault,
                       cpu, overflowChecks, shadow>>

\* interrupt.remove_irq(kind)
IrqRemove ==
    \E kind \in InterruptKind :
        /\ nops < MaxIrqOps
        /\ interrupt' = remove_irq(interrupt, kind)
        /\ lastOp' = [op |-> "remove_irq", kind |-> kind]
        /\ nops' = nops + 1
        /\ UNCHANGED <<cartridge, ram, hram, ppu, apu, pad, timer, fault,
                       cpu, overflowChecks, shadow>>

\* the state the vector query leaves behind: isr_addr takes &self
IsrQueryEffect(i) == i

\* bus.isr_addr()
IrqQuery ==
    /\ lastOp.op # "isr_addr"
    /\ interrupt' = IsrQueryEffect(interrupt)
    /\ lastOp' = [op |-> "isr_addr", result |-> isr_addr(interrupt), before |-> interrupt]
    /\ UNCHANGED <<cartridge, ram, hram, ppu, apu, pad, timer, fault,
                   cpu, overflowChecks, shadow, nops>>

IrqNext == IrqWrite \/ IrqEnable \/ IrqDisable \/ IrqSet \/ IrqRemove \/ IrqQuery

SpecIrq == IrqInit /\ [][IrqNext]_vars

\* the bits 0..4 set in both IE and IF
PendingEnabled(i) == {k \in 0..4 : HasBit(i.irqe, k) /\ HasBit(i.irqf, k)}

\* the least element of a non-empty set of numbers
Least(S) == CHOOSE k \in S : \A j \in S : k <= j

\* C7: the vector query returns a vector exactly when IME is on and IE & IF
\* has one of bits 0..4 set, and then the vector 0x40 + 8*k of the lowest such
\* bit k; it returns None otherwise; the query changes neither IF, IE nor IME.
C7_IsrVector ==
    lastOp.op = "isr_addr" =>
        /\ lastOp.result =
               IF lastOp.before.ime /\ PendingEnabled(lastOp.before) # {}
               THEN 64 + 8 * Least(PendingEnabled(lastOp.before))
               ELSE None
        /\ interrupt = lastOp.before

\* the query picked Timer (0x50) although Joypad was pending and enabled
\* too, with the unused high bits of IF and IE set
C7_Witness ==
    /\ lastOp.op = "isr_addr" /\ lastOp.result = 80
    /\ interrupt.ime /\ interrupt.irqe = 255 /\ HasBit(interrupt.irqf, 4)
    /\ ~HasBit(interrupt.irqf, 0) /\ ~HasBit(interrupt.irqf, 1)

\* C15: a read of IF (0xFF0F) returns 0 in bits 5..7 and a read of STAT
\* (0xFF41) returns 0 in bit 7, whatever was written to them.
C15_UnusedBitsZero ==
    /\ And(BusRead8(Bus, 65295, overflowChecks), 224) = 0
    /\ And(BusRead8(Bus, 65345, overflowChecks), 128) = 0

----------------------------------------------------------------------------
(* Timer (SpecTimer) *)

\* number of timer register writes before the ticks start
MaxTimerWrites == 3

\* number of bus ticks explored: one period of the slowest divider and a bit
MaxTimerTicks == 1030

\* TIMA, TMA and TAC
TimerAddrs == {65285, 65286, 65287}

\* the bytes written: TAC disabled (1), the four enabled selectors (4..7),
\* a TIMA one increment from the wrap (255) and a TMA to reload (128)
TimerData == {1, 4, 5, 6, 7, 128, 255}

TimerInit == InitWith(NoCartridge, FALSE)

\* bus.write8(addr, data) on a timer register, before the first tick
TimerWrite ==
    \E addr \in TimerAddrs, data \in TimerData :
        /\ nops < MaxTimerWrites
        /\ timer.count = 0
        /\ addr = 65287 => data < 8
        /\ addr # 65287 => data >= 128
        /\ SetBus(BusWrite8(Bus, addr, data))
        /\ lastOp' = [op |-> "write8", addr |-> addr, data |-> data]
        /\ nops' = nops + 1
        /\ UNCHANGED <<cpu, overflowChecks, shadow>>

\* bus.tick()
TimerBusTick ==
    /\ timer.count < MaxTimerTicks
    /\ SetBus(BusTick(Bus, overflowChecks))
    /\ lastOp' = [op |-> "tick"]
    /\ UNCHANGED <<cpu, overflowChecks, shadow, nops>>

TimerNext == TimerWrite \/ TimerBusTick

SpecTimer == TimerInit /\ [][TimerNext]_vars

\* C8: with TAC bit 2 set, a tick changes TIMA by one increment (reloading on
\* the wrap) exactly when the sub-clock is a multiple of the divider of TAC
\* bits 1-0, selector 0 being 1024, 1 being 16, 2 being 64 and 3 being 256;
\* with TAC bit 2 clear a tick leaves TIMA alone.
C8_TimaRate ==
    [][timer'.count = timer.count + 1 =>
        LET sel     == And(timer.tac, 3)
            divider == CASE sel = 0 -> TAC00_DIV
                         [] sel = 1 -> TAC01_DIV
                         [] sel = 2 -> TAC10_DIV
                         [] sel = 3 -> TAC11_DIV
        IN  IF HasBit(timer.tac, 2) /\ timer'.count % divider = 0
            THEN timer'.tima = (IF timer.tima = 255 THEN timer.tma ELSE timer.tima + 1)
            ELSE timer'.tima = timer.tima]_vars

\* C9: a tick in which an enabled TIMA increment wraps 0xFF to 0x00 leaves
\* TIMA equal to TMA and the Timer bit of IF set; a tick without such a wrap
\* leaves the Timer bit of IF as it was.
C9_WrapReloads ==
    [][timer'.count = timer.count + 1 =>
        LET wraps == /\ HasBit(timer.tac, 2)
                     /\ timer.tima = 255
                     /\ timer'.count % TimerDivider(And(timer.tac, 3)) = 0
        IN  /\ wraps => timer'.tima = timer.tma /\ HasBit(interrupt'.irqf, 2)
            /\ ~wraps => HasBit(interrupt'.irqf, 2) = HasBit(interrupt.irqf, 2)]_vars

\* TIMA wrapped and was reloaded with TMA = 0x80; the Timer bit is set
C9_Witness ==
    /\ lastOp.op = "tick"
    /\ HasBit(interrupt.irqf, 2)
    /\ timer.tma = 128 /\ timer.tima = 128
    /\ HasBit(timer.tac, 2)

----------------------------------------------------------------------------
(* Pixel pipeline (SpecPpu) *)

\* number of register writes before the ticks start
MaxPpuWrites == 1

\* number of bus ticks explored: the 154 lines of a frame, 114 ticks each,
\* and the first lines of the next frame
MaxPpuTicks == 17800

\* the register writes of the set-up: the window enabled in LCDC, the HBlank,
\* the mode-1 and the LY = LYC interrupt sources in STAT, LYC on the second
\* and on the last lines
PpuWrites ==
    {<<65344, 177>>, <<65345, 8>>, <<65345, 16>>, <<65345, 64>>,
     <<65349, 1>>, <<65349, 153>>, <<65349, 154>>}

PpuInit == InitWith(NoCartridge, FALSE)

\* bus.write8(addr, data) on a register of the pipeline other than LY
PpuWrite ==
    \E w \in PpuWrites :
        /\ nops < MaxPpuWrites
        /\ timer.count = 0
        /\ SetBus(BusWrite8(Bus, w[1], w[2]))
        /\ lastOp' = [op |-> "write8", addr |-> w[1], data |-> w[2]]
        /\ nops' = nops + 1
        /\ UNCHANGED <<cpu, overflowChecks, shadow>>

\* bus.tick()
PpuBusTick ==
    /\ timer.count < MaxPpuTicks
    /\ SetBus(BusTick(Bus, overflowChecks))
    /\ lastOp' = [op |-> "tick"]
    /\ UNCHANGED <<cpu, overflowChecks, shadow, nops>>

PpuNext == PpuWrite \/ PpuBusTick

SpecPpu == PpuInit /\ [][PpuNext]_vars

\* C10: in every state reached by ticking from reset, with no write to LY,
\* LY is within 0..153.
C10_LyInRange == ppu.ly \in 0..153

\* the STAT mode bits: 0 HBlank, 1 VBlank, 2 OAM search, 3 pixel transfer
StatMode(p) == And(p.stat, 3)

\* C11: a tick requests the VBlank interrupt exactly when it advances LY
\* from 143 to 144, and that tick also requests the LCDC-status interrupt
\* when STAT bit 4 is set.
C11_VblankOnLine144 ==
    [][timer'.count = timer.count + 1 =>
        /\ PpuTick(ppu, overflowChecks).vblank_irq <=> (ppu.ly = 143 /\ ppu'.ly = 144)
        /\ (ppu.ly = 143 /\ ppu'.ly = 144 /\ HasBit(ppu.stat, 4))
               => PpuTick(ppu, overflowChecks).lcdc_irq]_vars

\* C12: a tick taken on a line 144..153 that stays on a line 144..153 leaves
\* the STAT mode bits at VBlank (01).
C12_VblankMode ==
    [][(timer'.count = timer.count + 1
        /\ ppu.ly \in 144..153 /\ ppu'.ly \in 144..153) => StatMode(ppu') = 1]_vars

\* C13: within a visible line the STAT mode goes from OAM search to pixel
\* transfer to HBlank: a tick that stays on the line takes OAM search to OAM
\* search or pixel transfer, pixel transfer to pixel transfer or HBlank, and
\* HBlank to HBlank.
C13_ModeOrder ==
    [][(timer'.count = timer.count + 1 /\ timer.count > 0
        /\ ppu.ly < 144 /\ ppu'.ly = ppu.ly) =>
            \/ StatMode(ppu) = 2 /\ StatMode(ppu') \in {2, 3}
            \/ StatMode(ppu) = 3 /\ StatMode(ppu') \in {3, 0}
            \/ StatMode(ppu) = 0 /\ StatMode(ppu') = 0
            \/ StatMode(ppu) = 1]_vars

\* C14: a tick that moves LY onto LYC leaves the STAT coincidence bit set,
\* and requests the LCDC-status interrupt when STAT bit 6 is set.
C14_Coincidence ==
    [][(timer'.count = timer.count + 1
        /\ ppu'.ly # ppu.ly /\ ppu'.ly = ppu'.lyc) =>
            /\ HasBit(ppu'.stat, 2)
            /\ HasBit(ppu.stat, 6) => PpuTick(ppu, overflowChecks).lcdc_irq]_vars

----------------------------------------------------------------------------
(* Processor steps (SpecCpu) *)

\* number of Cpu::tick calls explored
MaxCpuSteps == 20

\* number of key events of the host explored
MaxKeyOps == 2

\* the keys the host presses and releases
HostKeys == {"A", "Start"}

\* 0x100: LD A,0x10; LDH (0xFF),A; EI; NOP; LD A,0xC0; LDH (0x46),A; NOP;
\*        JP 0x0105
\* enables the Joypad interrupt and starts an OAM DMA from page 0xC0 in a loop
JoypadProgram == <<62, 16, 224, 255, 251, 0, 62, 192, 224, 70, 0, 195, 5, 1>>

\* 0x100: LD A,0x04; LDH (0xFF),A; LD A,0xFF; LDH (0x05),A; LD A,0x06;
\*        LDH (0x07),A; EI; NOP; JP 0x010D
\* enables the Timer interrupt and starts the timer one increment from the wrap
TimerProgram == <<62, 4, 224, 255, 62, 255, 224, 5, 62, 6, 224, 7, 251, 0, 195, 13, 1>>

Programs == {JoypadProgram, TimerProgram}

\* the bytes of a ROM file that holds prog at the entry point 0x100
RomOf(prog) ==
    LET offs == {255 + j : j \in {k \in 1..Len(prog) : prog[k] # 0}}
    IN  Zeroes @@ [o \in offs |-> prog[o - 255]]

\* Cpu::from_path for a ROM-only cartridge holding one of the programs
CpuInit ==
    \E prog \in Programs :
        InitWith(CartridgeFromPath("NoMbc", RomOf(prog), _ROM_SIZE, 0), FALSE)

\* the assignment of the result r of Cpu::tick to the processor and its bus
SetCpu(r) ==
    /\ cpu' = r.cpu
    /\ SetBus(r.bus)
    /\ lastOp' = [op |-> "tick", dma |-> r.dma, opcode |-> r.opcode]

\* cpu.tick()
CpuStep ==
    /\ timer.count < MaxCpuSteps
    /\ ~fault
    /\ SetCpu(CpuTick(cpu, Bus, overflowChecks))
    /\ UNCHANGED <<overflowChecks, shadow, nops>>

\* key_down_event: cpu.push_key(key)
KeyPush ==
    \E key \in HostKeys :
        /\ nops < MaxKeyOps
        /\ SetBus(BusPushKey(Bus, key))
        /\ lastOp' = [op |-> "push_key", key |-> key]
        /\ nops' = nops + 1
        /\ UNCHANGED <<cpu, overflowChecks, shadow>>

\* key_up_event: cpu.release_key(key)
KeyRelease ==
    \E key \in HostKeys :
        /\ nops < MaxKeyOps
        /\ SetBus(BusReleaseKey(Bus, key))
        /\ lastOp' = [op |-> "release_key", key |-> key]
        /\ nops' = nops + 1
        /\ UNCHANGED <<cpu, overflowChecks, shadow>>

CpuNext == CpuStep \/ KeyPush \/ KeyRelease

SpecCpu == CpuInit /\ [][CpuNext]_vars

\* C1: a step taken with IME set and a bit 0..4 set in IE & IF (and no OAM
\* DMA pending) fetches no opcode; it clears IME, pushes PC high byte then low
\* byte, and leaves PC at the vector of the lowest such bit.
C1_StepDispatches ==
    [][(lastOp'.op = "tick" /\ timer'.count # timer.count
        /\ ~ppu.oam_dma_started
        /\ interrupt.ime /\ And(And(interrupt.irqe, interrupt.irqf), 31) # 0) =>
            LET k == CHOOSE n \in 0..4 :
                        /\ HasBit(And(interrupt.irqe, interrupt.irqf), n)
                        /\ \A m \in 0..(n - 1) : ~HasBit(And(interrupt.irqe, interrupt.irqf), m)
            IN  /\ lastOp'.opcode = None
                /\ ~interrupt'.ime
                /\ cpu'.pc = 64 + 8 * k
                /\ cpu'.sp = Wrap16(cpu.sp - 2)
                /\ BusRead8(Bus, Wrap16(cpu.sp - 1), overflowChecks)' = cpu.pc \div 256
                /\ BusRead8(Bus, Wrap16(cpu.sp - 2), overflowChecks)' = cpu.pc % 256]_vars

\* C2: a step services the pending OAM DMA, then dispatches an interrupt or
\* fetches and executes one instruction, then ticks the bus once; a step
\* that services a DMA still fetches an instruction or dispatches.
C2_StepOrder ==
    [][(lastOp'.op = "tick" /\ timer'.count # timer.count) =>
            /\ ppu.oam_dma_started => lastOp'.dma /\ ~ppu'.oam_dma_started
            /\ \/ lastOp'.opcode # None
               \/ interrupt.ime /\ ~interrupt'.ime /\ cpu'.pc \in {64, 72, 80, 88, 96}
            /\ timer'.count = timer.count + 1]_vars

----------------------------------------------------------------------------
(* Instructions (SpecInstr) *)

\* number of Cpu::tick calls explored: the longest program and one more step
MaxInstrSteps == 12

\* the bytes of a ROM file that holds prog at offset base
RomAt(base, prog) ==
    LET offs == {base + j - 1 : j \in {k \in 1..Len(prog) : prog[k] # 0}}
    IN  Zeroes @@ [o \in offs |-> prog[o - base + 1]]

\* values of A and of the operand: zero, the nibble and byte boundaries
AluValues == {0, 1, 15, 16, 128, 255}

\* the arithmetic and logic opcodes: 0x80..0xBF and the eight immediates
AluOpcodes == (128..191) \cup {198, 206, 214, 222, 230, 238, 246, 254}

\* the instructions that put x where the opcode reads its operand:
\* LD r, x for a register, LD HL, 0xC000; LD (HL), x for (HL), nothing for A
\* and for an immediate
AluSetup(opcode, x) ==
    IF opcode >= 192 \/ opcode % 8 = 7 THEN << >>
    ELSE IF opcode % 8 = 6 THEN <<33, 0, 192, 54, x>>
    ELSE <<6 + 8 * (opcode % 8), x>>

\* 0x100: LD A, a; the operand set-up; SCF or NOP; the opcode (and x as its
\* immediate byte)
AluProgram(opcode, a, x, carry) ==
    <<62, a>> \o AluSetup(opcode, x) \o <<IF carry = 1 THEN 55 ELSE 0, opcode>>
              \o (IF opcode >= 192 THEN <<x>> ELSE << >>)

AluRoms ==
    {RomAt(256, AluProgram(opcode, a, x, carry)) :
        opcode \in AluOpcodes, a \in AluValues, x \in AluValues, carry \in {0, 1}}

\* 0x100: LD BC, 0x120F; PUSH BC; POP AF; PUSH AF
PopAfRom == RomAt(256, <<1, 15, 18, 197, 241, 245>>)

\* addresses of the CALL: in ROM, at the end of ROM, in high RAM and at the
\* end of high RAM (its last operand byte is the IE register)
CallPcs == {336, 32765, 65408, 65533}

\* stack pointers before the CALL: top of high RAM, work RAM, and the start
\* of the echo (the pushes go to the end of work RAM)
CallSps == {65534, 53248, 57344}

\* targets of the CALL, where a RET is placed
CallTargets == {512, 16384}

\* CALL nn and CALL NZ / Z / NC / C, nn
CallOpcodes == {205, 196, 204, 212, 220}

\* the instruction that makes the condition of the CALL true: XOR A, A for
\* Z, SCF for C, NOP otherwise
CallSetup(opcode) == <<CASE opcode = 204 -> 175 [] opcode = 220 -> 55 [] OTHER -> 0>>

\* LD A, v; LDH (addr - 0xFF00), A for each byte of prog, to place prog at
\* addr in high RAM
RECURSIVE StoreHigh(_, _)
StoreHigh(addr, prog) ==
    IF prog = << >> THEN << >>
    ELSE <<62, Head(prog), 224, addr - 65280>> \o StoreHigh(addr + 1, Tail(prog))

\* 0x100: the condition set-up; LD SP, sp; (the CALL stored to high RAM);
\* JP pc; at pc: CALL nn; at nn: RET
CallRom(opcode, pc, sp, nn) ==
    LET call == <<opcode, nn % 256, nn \div 256>>
        jump == <<195, pc % 256, pc \div 256>>
        head == CallSetup(opcode) \o <<49, sp % 256, sp \div 256>>
    IN  IF pc < 32768
        THEN RomAt(256, head \o jump) @@ RomAt(pc, call) @@ RomAt(nn, <<201>>)
        ELSE RomAt(256, head \o StoreHigh(pc, call) \o jump) @@ RomAt(nn, <<201>>)

CallRoms ==
    {CallRom(opcode, pc, sp, nn) :
        opcode \in CallOpcodes, pc \in CallPcs, sp \in CallSps, nn \in CallTargets}

\* Cpu::from_path for a ROM-only cartridge holding one of the programs,
\* built with or without overflow checks
InstrInit ==
    \E rom \in AluRoms \cup {PopAfRom} \cup CallRoms, checks \in BOOLEAN :
        InitWith(CartridgeFromPath("NoMbc", rom, _ROM_SIZE, 0), checks)

\* cpu.tick(); shadow keeps SP and PC as they were before the last CALL
InstrStep ==
    /\ timer.count < MaxInstrSteps
    /\ ~fault
    /\ SetCpu(CpuTick(cpu, Bus, overflowChecks))
    /\ shadow' = IF BusRead8(Bus, cpu.pc, overflowChecks) \in CallOpcodes
                 THEN [sp |-> cpu.sp, pc |-> cpu.pc]
                 ELSE shadow
    /\ UNCHANGED <<overflowChecks, nops>>

SpecInstr == InstrInit /\ [][InstrStep]_vars

\* C16: the low nibble of F is 0 in every state of the processor.
C16_FlagLowNibble == And(cpu.f, 15) = 0

\* C17: no CALL panics; after a taken CALL the return address, the address
\* after the three bytes of the CALL, is on the stack with its high byte at
\* the higher address; after the RET at the target SP is what it was before
\* the CALL and PC is the return address.
C17_CallRet ==
    /\ ~fault
    /\ (lastOp.op = "tick" /\ lastOp.opcode \in CallOpcodes) =>
           /\ cpu.sp = Wrap16(shadow.sp + 65534)
           /\ BusRead8(Bus, Wrap16(cpu.sp + 1), overflowChecks) = Wrap16(shadow.pc + 3) \div 256
           /\ BusRead8(Bus, cpu.sp, overflowChecks) = Wrap16(shadow.pc + 3) % 256
    /\ (lastOp.op = "tick" /\ lastOp.opcode = 201) =>
           /\ cpu.sp = shadow.sp
           /\ cpu.pc = Wrap16(shadow.pc + 3)

\* the operand an arithmetic or logic opcode is about to read: the byte after
\* the opcode, the byte at (HL), or a register
OperandOf(opcode) ==
    IF opcode >= 192 THEN BusRead8(Bus, Wrap16(cpu.pc + 1), overflowChecks)
    ELSE IF opcode % 8 = 6 THEN BusRead8(Bus, read_hl(cpu), overflowChecks)
    ELSE Reg8(cpu, opcode % 8)

\* the high nibble of F for the four flags
FlagByte(z, n, h, c) ==
    (IF z THEN 128 ELSE 0) + (IF n THEN 64 ELSE 0) + (IF h THEN 32 ELSE 0)
        + (IF c THEN 16 ELSE 0)

\* a step of the processor that executed the opcode
Executed(opcode) ==
    /\ timer'.count = timer.count + 1
    /\ lastOp'.op = "tick"
    /\ lastOp'.opcode = opcode
    /\ ~fault'

AddOpcodes == (128..135) \cup {198}
AdcOpcodes == (136..143) \cup {206}
SubOpcodes == (144..151) \cup {214}
SbcOpcodes == (152..159) \cup {222}
AndOpcodes == (160..167) \cup {230}
XorOpcodes == (168..175) \cup {238}
OrOpcodes == (176..183) \cup {246}
CpOpcodes == (184..191) \cup {254}

\* C18: ADD A, x leaves A = (A + x) mod 256, Z from the result, N = 0, H the
\* carry from bit 3 and C the carry out of bit 7; SUB A, x leaves
\* A = (A - x) mod 256, Z from the result, N = 1, H the borrow from bit 4 and
\* C = (A < x); CP A, x sets the flags of SUB and leaves A unchanged.
C18_AddSubCp ==
    [][\A opcode \in AddOpcodes \cup SubOpcodes \cup CpOpcodes :
        Executed(opcode) =>
            LET a == cpu.a
                x == OperandOf(opcode)
                sub == FlagByte((a - x) % 256 = 0, TRUE, a % 16 < x % 16, a < x)
            IN  CASE opcode \in AddOpcodes ->
                        /\ cpu'.a = (a + x) % 256
                        /\ And(cpu'.f, 240) = FlagByte((a + x) % 256 = 0, FALSE,
                                                  (a % 16) + (x % 16) > 15, a + x > 255)
                  [] opcode \in SubOpcodes ->
                        /\ cpu'.a = (a - x) % 256
                        /\ And(cpu'.f, 240) = sub
                  [] opcode \in CpOpcodes ->
                        /\ cpu'.a = a
                        /\ And(cpu'.f, 240) = sub]_vars

\* SUB A, (HL) has subtracted 1 from 0: A = 0xFF with N, H and C set
C18_Witness ==
    /\ lastOp.op = "tick"
    /\ lastOp.opcode = 150
    /\ ~fault
    /\ cpu.a = 255
    /\ cpu.f = 112
    /\ BusRead8(Bus, read_hl(cpu), overflowChecks) = 1

\* C19: ADC A, x leaves A = (A + x + c) mod 256 and SBC A, x leaves
\* A = (A - x - c) mod 256 for the incoming carry c, with H and C the
\* half-carry and carry (half-borrow and borrow) of the three-operand
\* operation.
C19_AdcSbc ==
    [][\A opcode \in AdcOpcodes \cup SbcOpcodes :
        Executed(opcode) =>
            LET a == cpu.a
                x == OperandOf(opcode)
                c == IF And(cpu.f, 16) = 16 THEN 1 ELSE 0
            IN  IF opcode \in AdcOpcodes
                THEN /\ cpu'.a = (a + x + c) % 256
                     /\ And(cpu'.f, 32) = 32 <=> (a % 16) + (x % 16) + c > 15
                     /\ And(cpu'.f, 16) = 16 <=> a + x + c > 255
                ELSE /\ cpu'.a = (a - x - c) % 256
                     /\ And(cpu'.f, 32) = 32 <=> a % 16 < (x % 16) + c
                     /\ And(cpu'.f, 16) = 16 <=> a < x + c]_vars

\* C20: AND leaves A = A & x with Z from the result, N = 0, H = 1, C = 0; OR
\* leaves A = A | x and XOR leaves A = A ^ x, each with Z from the result and
\* N = 0, H = 0, C = 0.
C20_Logic ==
    [][\A opcode \in AndOpcodes \cup XorOpcodes \cup OrOpcodes :
        Executed(opcode) =>
            LET a == cpu.a
                x == OperandOf(opcode)
                r == CASE opcode \in AndOpcodes -> And(a, x)
                       [] opcode \in XorOpcodes -> Xor(a, x)
                       [] opcode \in OrOpcodes -> Or(a, x)
            IN  /\ cpu'.a = r
                /\ And(cpu'.f, 240) = FlagByte(r = 0, FALSE, opcode \in AndOpcodes, FALSE)]_vars

----------------------------------------------------------------------------
(* INC / DEC, 16-bit additions, the CB page, jumps, DI / EI / RETI and
   opcodes without an arm (SpecOps) *)

\* the instructions that put v into the operand with index i of the opcode
\* tables: LD r, v for B, C, D, E, H, L (0..5) and A (7), and
\* LD HL, 0xC000; LD (HL), v for (HL) (6)
LoadR(i, v) ==
    IF i = 6 THEN <<33, 0, 192, 54, v>> ELSE <<6 + 8 * i, v>>

\* SCF or NOP
LoadCarry(carry) == <<IF carry = 1 THEN 55 ELSE 0>>

IncOpcodes == {4, 12, 20, 28, 36, 44, 52, 60}
DecOpcodes == {5, 13, 21, 29, 37, 45, 53, 61}

\* 0x100: load the operand; SCF or NOP; INC or DEC
IncDecRoms ==
    {RomAt(256, LoadR(opcode \div 8, v) \o LoadCarry(carry) \o <<opcode>>) :
        opcode \in IncOpcodes \cup DecOpcodes, v \in AluValues, carry \in {0, 1}}

\* values of HL, of the register pair added and of SP: zero and the
\* boundaries of bit 3, 7, 11 and 15
WideValues == {0, 1, 15, 255, 4095, 4096, 32768, 65534, 65535}

AddHlOpcodes == {9, 25, 41, 57}

\* LD rr, v with the opcode 0x01, 0x11, 0x21, 0x31 for k = 0..3
LoadRr(k, v) == <<1 + 16 * k, v % 256, v \div 256>>

\* 0x100: XOR A, A or NOP (Z set or clear); LD HL, hl; LD rr, v; ADD HL, rr
AddHlRoms ==
    {RomAt(256, <<zero>> \o LoadRr(2, hl)
                 \o (IF k = 2 THEN << >> ELSE LoadRr(k, v)) \o <<9 + 16 * k>>) :
        k \in 0..3, hl \in WideValues, v \in WideValues, zero \in {0, 175}}

\* 0x100: XOR A, A or NOP; LD SP, sp; LDHL SP, e
LdhlRoms ==
    {RomAt(256, <<zero>> \o LoadRr(3, sp) \o <<248, e>>) :
        sp \in WideValues, e \in AluValues \cup {127, 240}, zero \in {0, 175}}

\* 0x100: load the operand; SCF or NOP; CB, then SWAP (0x30 + i) or
\* RRC (0x08 + i); and LD A, v; SCF or NOP; RRCA
CbRoms ==
    {RomAt(256, LoadR(i, v) \o LoadCarry(carry) \o <<203, first + i>>) :
        first \in {8, 48}, i \in 0..7, v \in AluValues, carry \in {0, 1}}
    \cup {RomAt(256, LoadR(7, v) \o LoadCarry(carry) \o <<15>>) :
        v \in AluValues, carry \in {0, 1}}

JpCcOpcodes == {194, 202, 210, 218}
JrOpcodes == {24, 32, 40, 48, 56}

\* NOP, XOR A, A (sets Z) or SCF (sets C) before a conditional jump
FlagSetups == {0, 175, 55}

\* targets of JP cc, nn; executed as instructions the operand bytes are
\* NOP; LD B, n and NOP; LD A, n
JpTargets == {1536, 15872}

\* 0x100: the flag set-up; JP cc, nn
JpCcRoms ==
    {RomAt(256, <<setup, opcode, nn % 256, nn \div 256>>) :
        opcode \in JpCcOpcodes, setup \in FlagSetups, nn \in JpTargets}

\* addresses of the JR: in ROM, at the end of ROM, in high RAM, and at the
\* end of high RAM with the next instruction at 0xFFFF and at 0x0000
JrPcs == {336, 32765, 65408, 65533, 65534}

\* displacement bytes
JrOffsets == {0, 1, 2, 127, 128, 254, 255}

\* 0x100: the flag set-up; (the JR stored to high RAM); JP pc; at pc: JR e
JrRom(opcode, setup, pc, e) ==
    LET jump == <<195, pc % 256, pc \div 256>>
    IN  IF pc < 32768
        THEN RomAt(256, <<setup>> \o jump) @@ RomAt(pc, <<opcode, e>>)
        ELSE RomAt(256, <<setup>> \o StoreHigh(pc, <<opcode, e>>) \o jump)

JrRoms ==
    {JrRom(opcode, setup, pc, e) :
        opcode \in JrOpcodes, setup \in FlagSetups, pc \in JrPcs, e \in JrOffsets}

\* 0x100: EI; DI; EI; DI / registers loaded, then EI; DI / a return address
\* pushed, then RETI, with IME clear and with IME set
ImeRoms ==
    { RomAt(256, <<251, 243, 251, 243>>),
      RomAt(256, <<62, 5, 55, 1, 52, 18, 33, 0, 192, 54, 7, 243, 251, 243>>),
      RomAt(256, <<1, 0, 2, 197, 217>>),
      RomAt(256, <<251, 49, 0, 208, 1, 255, 127, 197, 217>>),
      RomAt(256, <<251, 1, 0, 64, 197, 243, 217>>) }

\* 0x100: LD A, 5; LD BC, 0x1234; an opcode without an arm
UndefinedRoms == {RomAt(256, <<62, 5, 1, 52, 18, opcode>>) : opcode \in UndefinedOpcodes}

\* Cpu::from_path for a ROM-only cartridge holding one of the programs,
\* built with or without overflow checks
OpsInit ==
    \E rom \in IncDecRoms \cup AddHlRoms \cup LdhlRoms \cup CbRoms \cup JpCcRoms
                \cup JrRoms \cup ImeRoms \cup UndefinedRoms,
       checks \in BOOLEAN :
        InitWith(CartridgeFromPath("NoMbc", rom, _ROM_SIZE, 0), checks)

SpecOps == OpsInit /\ [][InstrStep]_vars

\* a step of the processor that fetched the opcode, whether it completed or
\* panicked
Stepped(opcode) ==
    /\ ~fault
    /\ lastOp'.op = "tick"
    /\ lastOp'.opcode = opcode
    /\ timer'.count = timer.count + 1 \/ fault'

\* the operand with index i of the opcode tables, in cpu c on bus b
Operand(i, c, b) ==
    IF i = 6 THEN BusRead8(b, read_hl(c), overflowChecks) ELSE Reg8(c, i)

\* C21: INC sets its operand to (v + 1) mod 256 with N = 0, DEC sets it to
\* (v - 1) mod 256 with N = 1; Z is set exactly when the new value of that
\* operand is 0, H is the half-carry (half-borrow), C is unchanged.
C21_IncDec ==
    [][\A opcode \in IncOpcodes \cup DecOpcodes :
        Executed(opcode) =>
            LET v   == Operand(opcode \div 8, cpu, Bus)
                new == Operand(opcode \div 8, cpu', Bus')
                inc == opcode \in IncOpcodes
            IN  /\ new = (IF inc THEN v + 1 ELSE v - 1) % 256
                /\ And(cpu'.f, 224) =
                       FlagByte(new = 0, ~inc, IF inc THEN v % 16 = 15 ELSE v % 16 = 0, FALSE)
                /\ And(cpu'.f, 16) = And(cpu.f, 16)]_vars

\* C22: ADD HL, rr leaves HL = (HL + rr) mod 65536 with N = 0, H the carry
\* from bit 11 to bit 12, C the carry out of bit 15, and Z unchanged.
C22_AddHl ==
    [][\A k \in 0..3 :
        Executed(9 + 16 * k) =>
            LET hl == cpu.h * 256 + cpu.l
                rr == CASE k = 0 -> cpu.b * 256 + cpu.c [] k = 1 -> cpu.d * 256 + cpu.e
                        [] k = 2 -> hl [] k = 3 -> cpu.sp
            IN  /\ cpu'.h * 256 + cpu'.l = (hl + rr) % 65536
                /\ And(cpu'.f, 112) =
                       FlagByte(FALSE, FALSE, (hl % 4096) + (rr % 4096) > 4095, hl + rr > 65535)
                /\ And(cpu'.f, 128) = And(cpu.f, 128)]_vars

\* C23: LDHL SP, e leaves HL = (SP + sign-extended e) mod 65536 and SP
\* unchanged, Z = 0 and N = 0, H the carry out of bit 3 and C the carry out
\* of bit 7 of the unsigned addition of the byte e to the low byte of SP.
C23_LdhlSp ==
    [][Executed(248) =>
        LET e == BusRead8(Bus, Wrap16(cpu.pc + 1), overflowChecks)
        IN  /\ cpu'.h * 256 + cpu'.l = (cpu.sp + (IF e >= 128 THEN e - 256 ELSE e)) % 65536
            /\ cpu'.sp = cpu.sp
            /\ And(cpu'.f, 240) =
                   FlagByte(FALSE, FALSE, (cpu.sp % 16) + (e % 16) > 15,
                            (cpu.sp % 256) + e > 255)]_vars

\* the second opcode byte of the instruction a CB step is about to run
CbOpcode == BusRead8(Bus, Wrap16(cpu.pc + 1), overflowChecks)

\* C24: SWAP replaces its operand v by ((v & 0x0F) << 4) | (v >> 4), with Z
\* from the result and N = 0, H = 0, C = 0.
C24_Swap ==
    [][\A i \in 0..7 :
        (Executed(203) /\ CbOpcode = 48 + i) =>
            LET v == Operand(i, cpu, Bus)
            IN  /\ Operand(i, cpu', Bus') = (v % 16) * 16 + (v \div 16)
                /\ And(cpu'.f, 240) = FlagByte(v = 0, FALSE, FALSE, FALSE)]_vars

\* C25: CB RRC rotates its operand v right circularly: the new bit 7 is the
\* old bit 0, which is also the new C, whatever the incoming carry; Z is
\* from the result, N = 0, H = 0; the value is the one RRCA gives for A = v.
C25_Rrc ==
    [][\A i \in 0..7 :
        (Executed(203) /\ CbOpcode = 8 + i) =>
            LET v == Operand(i, cpu, Bus)
                r == (v \div 2) + 128 * (v % 2)
            IN  /\ Operand(i, cpu', Bus') = r
                /\ r = Rrca([cpu EXCEPT !.a = v]).a
                /\ And(cpu'.f, 240) = FlagByte(r = 0, FALSE, FALSE, v % 2 = 1)]_vars

\* the 16-bit operand of the instruction a step is about to run
Operand16 ==
    BusRead8(Bus, Wrap16(cpu.pc + 2), overflowChecks) * 256
        + BusRead8(Bus, Wrap16(cpu.pc + 1), overflowChecks)

\* whether the condition NZ (0), Z (1), NC (2), C (3) holds for the flags f
Holds(cc, f) ==
    CASE cc = 0 -> And(f, 128) = 0 [] cc = 1 -> And(f, 128) = 128
      [] cc = 2 -> And(f, 16) = 0  [] cc = 3 -> And(f, 16) = 16

\* C26: JP cc, nn sets PC to nn exactly when cc holds and otherwise to the
\* address after the three bytes of the JP; no register, flag or memory cell
\* other than PC changes.
C26_JpCc ==
    [][\A cc \in 0..3 :
        Executed(194 + 8 * cc) =>
            /\ cpu' = [cpu EXCEPT !.pc = IF Holds(cc, cpu.f) THEN Operand16
                                         ELSE Wrap16(cpu.pc + 3)]
            /\ ram' = ram /\ hram' = hram /\ cartridge' = cartridge]_vars

\* C27: JR e sets PC to the address of the next instruction plus the signed
\* displacement modulo 65536, without a panic; JR cc, e does so when cc
\* holds and otherwise continues at the next instruction.
C27_Jr ==
    [][\A opcode \in JrOpcodes :
        Stepped(opcode) =>
            LET e == BusRead8(Bus, Wrap16(cpu.pc + 1), overflowChecks)
            IN  /\ ~fault'
                /\ cpu'.pc = IF opcode = 24 \/ Holds((opcode - 32) \div 8, cpu.f)
                             THEN (cpu.pc + 2 + (IF e >= 128 THEN e - 256 ELSE e)) % 65536
                             ELSE Wrap16(cpu.pc + 2)]_vars

C29_UnknownOpcode ==
    [][\A opcode \in UndefinedOpcodes :
        Stepped(opcode) =>
            /\ fault'
            /\ cpu' = cpu
            /\ ram' = ram /\ hram' = hram /\ cartridge' = cartridge]_vars

----------------------------------------------------------------------------
(* The bank registers of the Mbc1 cartridge (SpecMbc) *)

\* number of register writes explored
MaxMbcWrites == 3

\* the first and last address of the ROM-bank register range and of the
\* upper-bits range, and the mode register
MbcAddrs == {8192, 16383, 16384, 24575, 24576}

MbcData == {0, 1, 2, 3, 31, 225}

\* Cpu::from_path for an Mbc1 cartridge
MbcInit ==
    \E checks \in BOOLEAN :
        InitWith(CartridgeFromPath("Mbc1", Zeroes, Mbc1RomLen, 0), checks)

\* the low five bits of the most recent write to 0x2000..0x3FFF (1 before any)
LastLow == IF "low" \in DOMAIN shadow THEN shadow.low ELSE 1

\* the low two bits of the most recent write to 0x4000..0x5FFF made in
\* ROM-banking mode (0 before any)
LastHigh == IF "high" \in DOMAIN shadow THEN shadow.high ELSE 0

\* bus.write8(addr, data) to a register of the cartridge; shadow keeps what
\* the last writes to the two bank registers carried
MbcWrite ==
    \E addr \in MbcAddrs, data \in MbcData :
        /\ nops < MaxMbcWrites
        /\ SetBus(BusWrite8(Bus, addr, data))
        /\ lastOp' = [op |-> "write8", addr |-> addr, data |-> data]
        /\ shadow' = [low  |-> IF addr \in 8192..16383 THEN data % 32 ELSE LastLow,
                      high |-> IF addr \in 16384..24575 /\ cartridge.mode = "RomBank"
                               THEN data % 4 ELSE LastHigh]
        /\ nops' = nops + 1
        /\ UNCHANGED <<cpu, overflowChecks>>

SpecMbc == MbcInit /\ [][MbcWrite]_vars

\* C30: the low 5 bits of the ROM-bank index are the low 5 bits of the most
\* recent write to 0x2000..0x3FFF and its bits 5..6 are the low 2 bits of
\* the most recent write to 0x4000..0x5FFF made in ROM-banking mode; before
\* any write the index is 1.
C30_RomBankIndex ==
    /\ cartridge.rombank % 32 = LastLow
    /\ (cartridge.rombank \div 32) % 4 = LastHigh
    /\ lastOp.op = "new" => cartridge.rombank = 1

----------------------------------------------------------------------------
(* Reads of the switchable ROM bank of the Mbc1 cartridge (SpecMbcRom) *)

\* a ROM file of Mbc1RomLen bytes (four banks) whose banks start with the
\* bytes 16, 17, 18, 19 and end with 32, 33, 34, 35
MbcRom ==
    [o \in {ROM_BANK_SIZE * k : k \in 0..3} |-> 16 + o \div ROM_BANK_SIZE]
        @@ [o \in {ROM_BANK_SIZE * k + 16383 : k \in 0..3} |-> 32 + o \div ROM_BANK_SIZE]

\* the first and last address of the switchable bank
MbcRomAddrs == {16384, 32767}

MbcRomInit ==
    \E checks \in BOOLEAN :
        InitWith(CartridgeFromPath("Mbc1", MbcRom, Mbc1RomLen, 0), checks)

\* bus.read8(addr) in 0x4000..0x7FFF
MbcRead ==
    \E addr \in MbcRomAddrs :
        /\ ~fault
        /\ nops < MaxMbcWrites
        /\ lastOp' = [op |-> "read8", addr |-> addr,
                      value |-> BusRead8(Bus, addr, overflowChecks)]
        /\ fault' = (BusRead8(Bus, addr, overflowChecks) = FAULT)
        /\ nops' = nops + 1
        /\ UNCHANGED <<cartridge, ram, hram, ppu, apu, interrupt, pad, timer,
                       cpu, overflowChecks, shadow>>

MbcRomNext == (~fault /\ MbcWrite) \/ MbcRead

SpecMbcRom == MbcRomInit /\ [][MbcRomNext]_vars

\* the bank a read in 0x4000..0x7FFF is to be served from: the index, and 1
\* for the index 0
ServedBank == IF cartridge.rombank = 0 THEN 1 ELSE cartridge.rombank

\* C37: after any sequence of bank-register writes a read in 0x4000..0x7FFF
\* completes without a panic and returns the byte of the ROM at
\* bank * 0x4000 + (addr - 0x4000) for a bank numbered at least 1.
C37_RomBankRead ==
    lastOp.op = "read8" =>
        /\ ~fault
        /\ lastOp.value # FAULT
        /\ ServedBank * ROM_BANK_SIZE < Mbc1RomLen =>
               lastOp.value = Get(MbcRom, ServedBank * ROM_BANK_SIZE + lastOp.addr - 16384)

----------------------------------------------------------------------------
(* The RAM of the Mbc1 cartridge (SpecMbcRam) *)

MaxMbcRamOps == 6

\* the header's RAM-size byte 2: 64 KiB of cartridge RAM
Mbc1RamLen == 65536

\* the ends of the RAM-enable range, the RAM-bank and mode registers and the
\* ends of the RAM window
MbcRamAddrs == {0, 8191, 16384, 24576, 40960, 49151}

MbcRamData == {0, 1, 10, 26}

\* the ends of the RAM window
MbcRamReads == {40960, 49151}

\* shadow: latch is what the most recent write to 0x0000..0x1FFF asks for;
\* last is the most recent write to the RAM window made with the RAM
\* enabled, with the registers it was made under
MbcRamInit ==
    \E checks \in BOOLEAN :
        InitWith(CartridgeFromPath("Mbc1", Zeroes, Mbc1RomLen, Mbc1RamLen), checks)

RamLatch == IF "latch" \in DOMAIN shadow THEN shadow.latch ELSE FALSE

LastRamWrite == IF "last" \in DOMAIN shadow THEN shadow.last ELSE [addr |-> None]

\* bus.write8(addr, data) to a register or to the RAM window of the cartridge
MbcRamWrite ==
    \E addr \in MbcRamAddrs, data \in MbcRamData :
        /\ ~fault
        /\ nops < MaxMbcRamOps
        /\ SetBus(BusWrite8(Bus, addr, data))
        /\ lastOp' = [op |-> "write8", addr |-> addr, data |-> data]
        /\ shadow' = [latch |-> IF addr <= 8191 THEN data % 16 = 10 ELSE RamLatch,
                      last  |-> IF addr >= 40960 /\ cartridge.ram_enabled
                                THEN [addr |-> addr, data |-> data,
                                      mode |-> cartridge.mode,
                                      rambank |-> cartridge.rambank]
                                ELSE LastRamWrite]
        /\ nops' = nops + 1
        /\ UNCHANGED <<cpu, overflowChecks>>

\* bus.read8(addr) in 0xA000..0xBFFF
MbcRamRead ==
    \E addr \in MbcRamReads :
        /\ ~fault
        /\ nops < MaxMbcRamOps
        /\ lastOp' = [op |-> "read8", addr |-> addr,
                      value |-> BusRead8(Bus, addr, overflowChecks)]
        /\ fault' = (BusRead8(Bus, addr, overflowChecks) = FAULT)
        /\ nops' = nops + 1
        /\ UNCHANGED <<cartridge, ram, hram, ppu, apu, interrupt, pad, timer,
                       cpu, overflowChecks, shadow>>

MbcRamNext == MbcRamWrite \/ MbcRamRead

SpecMbcRam == MbcRamInit /\ [][MbcRamNext]_vars

\* C31: the RAM-enable latch is set exactly when the most recent write to
\* 0x0000..0x1FFF had the low nibble 0xA (clear before any), and a write to
\* 0xA000..0xBFFF made while it is clear leaves the cartridge RAM unchanged.
C31_RamEnable ==
    [][/\ cartridge.ram_enabled = RamLatch
       /\ cartridge'.ram_enabled = RamLatch'
       /\ (lastOp'.op = "write8" /\ lastOp'.addr >= 40960 /\ ~cartridge.ram_enabled)
              => (cartridge'.ram = cartridge.ram /\ ~fault')]_vars

\* a write to the RAM window is ignored after the RAM was enabled by 0x1A,
\* written to, and disabled again
C31_Witness ==
    /\ lastOp.op = "write8"
    /\ lastOp.addr >= 40960
    /\ lastOp.data = 26
    /\ ~cartridge.ram_enabled
    /\ \E i \in DOMAIN cartridge.ram : cartridge.ram[i] = 1

\* C36: with the RAM enabled, a read in 0xA000..0xBFFF returns the value most
\* recently written to that address under the same banking mode and RAM
\* bank, in ROM-banking mode as well as in RAM-banking mode.
C36_RamReadBack ==
    (/\ lastOp.op = "read8"
     /\ cartridge.ram_enabled
     /\ LastRamWrite.addr = lastOp.addr
     /\ LastRamWrite.mode = cartridge.mode
     /\ LastRamWrite.rambank = cartridge.rambank)
        => lastOp.value = LastRamWrite.data

----------------------------------------------------------------------------
(* The pad register (SpecPad) *)

\* selector bytes: both rows, one row, no row, with and without the bits
\* outside P1
PadData == {0, 16, 32, 48, 207, 223, 239, 255}

PadInit == \E checks \in BOOLEAN : InitWith(NoCartridge, checks)

\* the keys held down
Pressed == IF "pressed" \in DOMAIN shadow THEN shadow.pressed ELSE {}

\* bus.write8(0xFF00, data)
PadSelect ==
    \E data \in PadData :
        /\ SetBus(BusWrite8(Bus, 65280, data))
        /\ lastOp' = [op |-> "write8", data |-> data]
        /\ UNCHANGED <<cpu, overflowChecks, shadow, nops>>

\* bus.push_key(key)
PadPush ==
    \E key \in Keys :
        /\ SetBus(BusPushKey(Bus, key))
        /\ lastOp' = [op |-> "push_key", key |-> key]
        /\ shadow' = [pressed |-> Pressed \cup {key}]
        /\ UNCHANGED <<cpu, overflowChecks, nops>>

\* bus.release_key(key)
PadRelease ==
    \E key \in Keys :
        /\ SetBus(BusReleaseKey(Bus, key))
        /\ lastOp' = [op |-> "release_key", key |-> key]
        /\ shadow' = [pressed |-> Pressed \ {key}]
        /\ UNCHANGED <<cpu, overflowChecks, nops>>

\* bus.read8(0xFF00)
PadRead ==
    /\ lastOp' = [op |-> "read8", value |-> BusRead8(Bus, 65280, overflowChecks)]
    /\ UNCHANGED <<cartridge, ram, hram, ppu, apu, interrupt, pad, timer,
                   cpu, fault, overflowChecks, shadow, nops>>

PadNext == PadSelect \/ PadPush \/ PadRelease \/ PadRead

SpecPad == PadInit /\ [][PadNext]_vars

\* the key state with a 0 bit for exactly the keys of `keys`
RECURSIVE SumPow2(_)
SumPow2(bits) ==
    IF bits = {} THEN 0
    ELSE LET k == CHOOSE k \in bits : TRUE
         IN  Pow2(k) + SumPow2(bits \ {k})

KeyStateOf(keys) == 255 - SumPow2({KeyBit(k) : k \in keys})

\* C32: the key state has a 0 bit for exactly the keys held down, and a read
\* of 0xFF00 returns (selector & 0xF0) | (key state >> 4) when P15 of the
\* selector is 0, else (selector & 0xF0) | (key state & 0x0F) when P14 is 0,
\* else selector & 0x0F.
C32_PadRead ==
    /\ pad.state = KeyStateOf(Pressed)
    /\ lastOp.op = "read8" =>
           lastOp.value =
               IF (pad.register \div 32) % 2 = 0
               THEN (pad.register \div 16) * 16 + (KeyStateOf(Pressed) \div 16)
               ELSE IF (pad.register \div 16) % 2 = 0
               THEN (pad.register \div 16) * 16 + (KeyStateOf(Pressed) % 16)
               ELSE pad.register % 16

\* the action row is read while A and Left are held down
C32_Witness ==
    /\ lastOp.op = "read8"
    /\ Pressed = {"A", "Left"}
    /\ pad.register = 16
    /\ lastOp.value = 30

----------------------------------------------------------------------------
(* The window overlay of one line (SpecWindow) *)

\* window positions: the left edge, the last visible column, the first
\* hidden ones, and the ends of the byte
WindowWx == {0, 7, 8, 166, 167, 255}

WindowWy == {0, 1, 143, 144, 255}

\* the lines Ppu::tick renders the window on
WindowLy == {0, 1, 2, 142, 143}

\* the pipeline after the window is enabled (LCDC 0xB1), colour 0 is given
\* the shade 3 (BGP 0x1B) and WX, WY and LY are written
WindowSetup(wx, wy, ly) ==
    PpuWrite8(PpuWrite8(PpuWrite8(PpuWrite8(PpuWrite8(PpuNew,
        65344, 177), 65351, 27), 65355, wx), 65354, wy), 65348, ly)

WindowInit ==
    \E wx \in WindowWx, wy \in WindowWy, ly \in WindowLy :
        /\ BusIs([BusNew(NoCartridge) EXCEPT !.ppu = WindowSetup(wx, wy, ly)])
        /\ cpu = CpuNew
        /\ overflowChecks = FALSE
        /\ lastOp = [op |-> "new"]
        /\ shadow = Zeroes
        /\ nops = 0

\* self.build_window(), as Ppu::tick calls it at the end of a visible line
WindowOverlay ==
    /\ lastOp.op = "new"
    /\ ppu.ly < SCREEN_HEIGHT
    /\ window_on(ppu)
    /\ ppu' = build_window(ppu)
    /\ lastOp' = [op |-> "build_window"]
    /\ UNCHANGED <<cartridge, ram, hram, apu, interrupt, pad, timer, cpu, fault,
                   overflowChecks, shadow, nops>>

SpecWindow == WindowInit /\ [][WindowOverlay]_vars

\* C33: the window overlay of line LY changes no pixel if WX >= 167, or if
\* WY >= 144, or if LY < WY.
C33_WindowSkipped ==
    [][(lastOp'.op = "build_window" /\ (ppu.wx >= 167 \/ ppu.wy >= 144 \/ ppu.ly < ppu.wy))
           => ppu'.pixels = ppu.pixels]_vars

\* the overlay ran with WX = 167 alone: a visible WY at or above the line
C33_Witness ==
    /\ lastOp.op = "build_window"
    /\ ppu.wx = 167
    /\ ppu.wy = 1
    /\ ppu.ly = 2
    /\ ppu.pixels = Zeroes

----------------------------------------------------------------------------
(* Loads between registers (SpecLd) *)

\* 0x40..0x7F without LD r, (HL), LD (HL), r and HALT
LdRROpcodes == (64..127) \ ({70, 78, 86, 94, 102, 110, 126} \cup (112..119))

\* 0x100: LD B, 1; LD C, 2; LD D, 3; LD E, 4; LD H, 5; LD L, 6; LD A, 7;
\* the flag set-up; LD r, r'
LdRRRoms ==
    {RomAt(256, <<6, 1, 14, 2, 22, 3, 30, 4, 38, 5, 46, 6, 62, 7, setup, opcode>>) :
        opcode \in LdRROpcodes, setup \in FlagSetups}

LdInit ==
    \E rom \in LdRRRoms, checks \in BOOLEAN :
        InitWith(CartridgeFromPath("NoMbc", rom, _ROM_SIZE, 0), checks)

SpecLd == LdInit /\ [][InstrStep]_vars

\* C34: LD r, r' sets r to the old value of r' and leaves the other
\* registers, the flags, SP and memory unchanged; PC advances by 1.
C34_LdRR ==
    [][\A opcode \in LdRROpcodes :
        Stepped(opcode) =>
            /\ ~fault'
            /\ cpu' = [SetReg8(cpu, (opcode - 64) \div 8, Reg8(cpu, (opcode - 64) % 8))
                          EXCEPT !.pc = Wrap16(cpu.pc + 1)]
            /\ ram' = ram /\ hram' = hram /\ cartridge' = cartridge
            /\ ppu'.vram = ppu.vram /\ ppu'.oam = ppu.oam]_vars

----------------------------------------------------------------------------
(* Decimal adjustment after an addition (SpecDaa) *)

\* packed-BCD bytes: 00, 01, 08, 09, 10, 19, 45, 50, 55, 90, 99
BcdValues == {0, 1, 8, 9, 16, 25, 69, 80, 85, 144, 153}

\* 0x100: LD A, x; ADD A, y; DAA
DaaRoms == {RomAt(256, <<62, x, 198, y, 39>>) : x \in BcdValues, y \in BcdValues}

DaaInit ==
    \E rom \in DaaRoms, checks \in BOOLEAN :
        InitWith(CartridgeFromPath("NoMbc", rom, _ROM_SIZE, 0), checks)

SpecDaa == DaaInit /\ [][InstrStep]_vars

\* the number a packed-BCD byte denotes, and the packed-BCD byte of a number
FromBcd(b) == (b \div 16) * 10 + (b % 16)

ToBcd(n) == (n \div 10) * 16 + (n % 10)

\* C35: after ADD A, y with A = x, for packed-BCD x and y, DAA leaves A the
\* packed BCD of (x + y) mod 100, C set exactly when x + y >= 100, Z set
\* exactly when the result is 0, and H clear.
C35_Daa ==
    [][Stepped(39) =>
        LET sum == FromBcd(Get(cartridge.rom, 257)) + FromBcd(Get(cartridge.rom, 259))
        IN  /\ ~fault'
            /\ cpu'.a = ToBcd(sum % 100)
            /\ FlagIs(cpu'.f, Flags_C) <=> sum >= 100
            /\ FlagIs(cpu'.f, Flags_Z) <=> sum % 100 = 0
            /\ ~FlagIs(cpu'.f, Flags_H)]_vars

----------------------------------------------------------------------------
(* The frame loop of the host (SpecFrame) *)

\* steps of MainWindow::update explored: past the second VBlank request
MaxFrameTicks == 34100

\* steps of MainWindow::update per frame
StepsPerFrame == 17556

\* ticks of a line: CLOCKS_PER_LINE / 4
TicksPerLine == CLOCKS_PER_LINE \div 4

FrameInit == \E checks \in BOOLEAN : InitWith(NoCartridge, checks)

\* the step at which the VBlank interrupt was last requested (None before)
LastVblank == IF "vblank" \in DOMAIN shadow THEN shadow.vblank ELSE None

\* one iteration of the loop of MainWindow::update: self.cpu.tick()
FrameTick ==
    /\ timer.count < MaxFrameTicks
    /\ ~fault
    /\ SetCpu(CpuTick(cpu, Bus, overflowChecks))
    /\ shadow' = IF PpuTick(ppu, overflowChecks).vblank_irq
                 THEN [vblank |-> timer.count + 1]
                 ELSE shadow
    /\ UNCHANGED <<overflowChecks, nops>>

SpecFrame == FrameInit /\ [][FrameTick]_vars

\* C38: after every tick the line clock is a multiple of 4 below 456; LY
\* changes exactly on every 114th tick; and a VBlank request follows the
\* previous one by exactly 17556 ticks, the steps the host runs per frame.
C38_FramePeriod ==
    [][/\ ppu'.clock % 4 = 0 /\ ppu'.clock < CLOCKS_PER_LINE
       /\ ppu'.ly # ppu.ly <=> timer'.count % TicksPerLine = 0
       /\ (PpuTick(ppu, overflowChecks).vblank_irq /\ LastVblank # None)
              => timer'.count - LastVblank = StepsPerFrame]_vars

\* the second VBlank request, 17556 steps after the first
C38_Witness ==
    /\ LastVblank = 34086
    /\ timer.count = 34086
    /\ HasBit(interrupt.irqf, 0)

----------------------------------------------------------------------------
(* The lines of a frame (SpecRender) *)

\* bus ticks explored: the 155 line ends of the first frame, the last of
\* which wraps LY, and the start of the next frame
MaxRenderTicks == 17700

\* LCDC with the LCD on, the window map at 0x9C00 and the tile data at
\* 0x8000: background and window on (0xF1), the background off (0xF0), the
\* window off (0xD1), both off (0xD0)
RenderLcdc == {241, 240, 209, 208}

\* the pipeline after LCDC is written, BGP maps the colours 0, 1 to the
\* shades 3, 2 (0x1B), the window is at the top left (WX = 7, WY = 0), row 0
\* of tile 1 is given the colour 1 and tile 1 is the first tile of the
\* window map
RenderSetup(lcdc) ==
    PpuWrite8(PpuWrite8(PpuWrite8(PpuWrite8(PpuWrite8(PpuWrite8(PpuNew,
        65344, lcdc), 65351, 27), 65355, 7), 65354, 0), 32784, 255), 39936, 1)

RenderInit ==
    \E lcdc \in RenderLcdc :
        /\ BusIs([BusNew(NoCartridge) EXCEPT !.ppu = RenderSetup(lcdc)])
        /\ cpu = CpuNew
        /\ overflowChecks = FALSE
        /\ lastOp = [op |-> "new"]
        /\ shadow = Zeroes
        /\ nops = 0

\* bus.tick()
RenderTick ==
    /\ timer.count < MaxRenderTicks
    /\ SetBus(BusTick(Bus, overflowChecks))
    /\ lastOp' = [op |-> "tick"]
    /\ UNCHANGED <<cpu, overflowChecks, shadow, nops>>

SpecRender == RenderInit /\ [][RenderTick]_vars

\* the rendering of line p.ly: the background if LCDC bit 0 is set, then the
\* window overlay if the window is enabled, WY <= LY and WX <= 166
RenderedLine(p) ==
    IF window_on(p) /\ p.wy <= p.ly /\ p.wx <= 166
    THEN BuildWindowFrom(IF HasBit(p.lcdc, 0) THEN build_bg(p) ELSE p, 0, SCREEN_WIDTH)
    ELSE IF HasBit(p.lcdc, 0) THEN build_bg(p) ELSE p

\* C39: in every frame each line 0..143 is rendered once, at the end of the
\* line (line 0 of the frames after the first at the line end that wraps
\* LY): the background only if LCDC bit 0 is set, the window whenever it is
\* enabled, WY <= LY and WX <= 166, on line 0 as on the others.  No other
\* tick changes a pixel (sprites being off).
C39_LinesRendered ==
    [][ppu'.pixels =
         IF timer'.count % TicksPerLine # 0 THEN ppu.pixels
         ELSE IF ppu.ly < SCREEN_HEIGHT THEN RenderedLine(ppu).pixels
         ELSE IF ppu.ly >= SCREEN_HEIGHT + LCD_BLANK_HEIGHT
         THEN RenderedLine([ppu EXCEPT !.ly = 0]).pixels
         ELSE ppu.pixels]_vars

----------------------------------------------------------------------------
(* Sprite drawing (SpecSprite) *)

\* OAM entry 0: Y at the top edge, inside, and around the bottom edge; X at
\* the left edge, inside, and around the right edge; no flip, X, Y, both
SpriteYs == {0, 8, 16, 17, 152, 159, 160}

SpriteXs == {4, 8, 164, 168}

SpriteFlags == {0, 32, 64, 96}

\* LCDC with the LCD and sprites on: 8x8 (0x93) and 8x16 (0x97)
SpriteLcdc == {147, 151}

\* tiles 1 and 2: row i (0..15) has the high bit plane 0xFF and the low bit
\* plane i + 1, so every pixel is 2 or 3 and no two rows are alike
SpriteVram == [o \in 16..47 |-> IF o % 2 = 0 THEN (o - 16) \div 2 + 1 ELSE 255]

\* the pipeline after LCDC, OBP0 = 0xE4 (shade = colour), the tile data and
\* OAM entry 0 (tile 1) are written
SpriteSetup(lcdc, y, x, flags) ==
    [PpuWrite8(PpuWrite8(PpuWrite8(PpuWrite8(PpuWrite8(PpuWrite8(PpuNew,
        65344, lcdc), 65352, 228), 65024, y), 65025, x), 65026, 1), 65027, flags)
     EXCEPT !.vram = SpriteVram]

SpriteInit ==
    \E lcdc \in SpriteLcdc, y \in SpriteYs, x \in SpriteXs, flags \in SpriteFlags,
       checks \in BOOLEAN :
        /\ BusIs([BusNew(NoCartridge) EXCEPT !.ppu = SpriteSetup(lcdc, y, x, flags)])
        /\ cpu = CpuNew
        /\ overflowChecks = checks
        /\ lastOp = [op |-> "new"]
        /\ shadow = Zeroes
        /\ nops = 0

\* self.build_sprite(), as Ppu::tick calls it at the end of line 144
SpriteDraw ==
    /\ lastOp.op = "new"
    /\ sprite_on(ppu)
    /\ fault' = SpriteFaults(ppu, overflowChecks)
    /\ ppu' = IF SpriteFaults(ppu, overflowChecks) THEN ppu ELSE build_sprite(ppu)
    /\ lastOp' = [op |-> "build_sprite"]
    /\ UNCHANGED <<cartridge, ram, hram, apu, interrupt, pad, timer, cpu,
                   overflowChecks, shadow, nops>>

SpecSprite == SpriteInit /\ [][SpriteDraw]_vars

\* the colour the sprite attr shows c columns right of and r rows below its
\* corner: the flips mirror within 8 columns and within the sprite's height
SpriteShown(p, attr, c, r) ==
    TileColor(p, attr.tile * 16 + TILEDATA1_OFFSET,
              IF is_xflip(attr) THEN 7 - c ELSE c,
              IF is_yflip(attr) THEN sprite_size(p) - 1 - r ELSE r)

\* C40: drawing the sprites does not panic; no pixel outside the 160 x 144
\* array is written and every pixel holds 0..3; every pixel of the sprite
\* whose screen coordinate is in range holds the sprite's colour, mirrored
\* within the sprite's height when Y-flip is set, unless that colour is 0.
C40_SpriteDrawing ==
    lastOp.op = "build_sprite" =>
        /\ ~fault
        /\ \A i \in DOMAIN ppu.pixels :
               i \in 0..(SCREEN_WIDTH * SCREEN_HEIGHT - 1) /\ ppu.pixels[i] \in 0..3
        /\ \A c \in 0..7, r \in 0..(sprite_size(ppu) - 1) :
               LET attr  == OamEntry(ppu, 0)
                   sx    == Wrap8(c + offsetx(attr))
                   sy    == Wrap8(r + offsety(attr))
                   color == SpriteShown(ppu, attr, c, r)
               IN  (sx < SCREEN_WIDTH /\ sy < SCREEN_HEIGHT /\ color # 0)
                       => Get(ppu.pixels, sx + sy * SCREEN_WIDTH)
                              = PaletteAt(get_sprite_palette(ppu, attr.flags), color)

====
